---- MODULE Spec2Model ----
(***************************************************************************)
(* The stat derivation engine of enka-py: the per-game stat layers         *)
(* (enka/calc/hsr.py, enka/calc/zzz.py) and the post-processing of the     *)
(* HSR and ZZZ clients (enka/clients/hsr.py, enka/clients/zzz.py).         *)
(*                                                                         *)
(* Numbers.  Python floats are modelled as exact fixed-point numbers: a    *)
(* layer value v stands for the real number v / TEN_THOUSAND, so that the  *)
(* growth term GrowthProps / 10000 * (level - 1) and math.floor are exact. *)
(* The rounding error of IEEE doubles is not modelled.                     *)
(***************************************************************************)
EXTENDS Integers, Sequences, FiniteSets, TLC

VARIABLES
  game,       \* layer machine: which game's calc module is in use
  heap,       \* layer machine: the live dict objects by identity; heap[1] is DEFAULT_PROPS
  cur,        \* layer machine: the PropLayer the caller holds (0: none)
  layers,     \* layer machine: PropState.layers, a list of references into heap
  raised,     \* layer machine: the last PropLayer.add call raised ValueError
  lastAdd,    \* layer machine: the name passed to the last PropLayer.add call ("": none yet)
  sumOut,     \* layer machine: the PropLayer returned by the last PropState.sum() (0: none)
  sumIn,      \* layer machine: the contents of the layers when the last sum() was called
  nAdds,      \* layer machine: number of PropLayer.add calls made by the caller
  sums,       \* layer machine: number of PropState.sum() calls, counted up to two
  setGame,    \* set machine: the game whose set bonuses are computed
  pieces,     \* set machine: the set id of each equipped relic / drive disc, in order
  setSkill,   \* set machine: HSR meta_data["relic"]["setSkill"]: set id -> piece count -> props
  suits,      \* set machine: ZZZ equipments["Suits"]: set id -> SetBonusProps
  setOut,     \* set machine: what each implementation returned for these inputs
  zAgent,     \* agent machine: the ZZZ agent (models.zzz.character.Agent)
  agentPc,    \* agent machine: "new", "done" or "raised": _post_process_agent's outcome
  agentErr,   \* agent machine: the exception _post_process_agent raised ("": none)
  agentLocals,\* agent machine: raw_stats and final_stats of _calc_agent_stats
  propState,  \* agent machine: PropState.layers, the layers generated for the agent
  calcPc,     \* agent machine: the generator to call next, "done" or "raised"
  calcErr,    \* agent machine: the exception a generator raised ("": none)
  calcLocals, \* agent machine: prop_sum of LayerGenerator.corrections
  rBase,      \* rounding machine: the base value of Max HP and of ATK
  rRatio,     \* rounding machine: the ratio of Max HP and of ATK, in 1/10000
  rDelta,     \* rounding machine: the flat value of Max HP and of ATK
  rOut,       \* rounding machine: the client's final stats and the layer's properties
  batchClient,\* batch machine: the client whose showcase is post-processed
  batch,      \* batch machine: the ids of the showcase's characters, in order
  batchPc,    \* batch machine: "new", "returned" or "raised": _post_process_showcase's outcome
  batchDone,  \* batch machine: the places of the characters that were post-processed
  playerDone, \* batch machine: the player was post-processed
  parGame,    \* parallel machine: which game's calc module is in use
  parHeap,    \* parallel machine: the live dict objects by identity; parHeap[1] is DEFAULT_PROPS
  parPc,      \* parallel machine: per character, the layer held, the sum layer and the sum's place
  parLayers,  \* parallel machine: per character, its PropState.layers
  parAlone,   \* parallel machine: per character, what its own calls alone make of its layers
  parAdds,    \* parallel machine: number of PropLayer.add calls made so far
  oGame,      \* order machine: which game's calc module is in use
  oValues,    \* order machine: the value each layer holds for one key, in layer order
  oSum,       \* order machine: what sum() returned for the key (<<>>: not yet called)
  oPermuted,  \* order machine: what sum() returned with the layers in other orders
  oMerged,    \* order machine: what sum() returned with two layers merged into one
  consts_data,\* asset machine: the GI asset table consts_data: constellation id -> record
  gLoaded,    \* asset machine: the content consts_data held after loading
  gBatch,     \* asset machine: the GI characters to post-process, in order
  gDone,      \* asset machine: how many of them have been post-processed
  gConsts,    \* asset machine: the constellations given to the last character
  cacheKind,  \* request machine: the cache the client was built with ("none": no cache)
  cacheStore, \* request machine: the cache's entries: url -> (expires_at, value)
  now,        \* request machine: time.time(), in seconds
  req,        \* request machine: the _request call in progress and where it stands
  call,       \* request machine: how the last _request call ended (<<>>: none yet)
  fetched,    \* request machine: per url, when the network last answered 200 and with what
  nCalls,     \* request machine: number of _request calls issued
  hChar,      \* HSR character machine: the character as parsed from the API response
  hStats,     \* HSR character machine: chara_stats and final_stats of the client (<<>>: not run)
  hLayers,    \* HSR character machine: the layers of the PropState, in the order appended
  hSum,       \* HSR character machine: the PropLayer that sum() returned (<<>>: not run)
  dNumber,    \* display machine: the number given to round_down, a float
  dPlaces,    \* display machine: decimal_places
  dOut,       \* display machine: <<what round_down returned>> (<<>>: not called)
  dAgain,     \* display machine: <<round_down of that result>> (<<>>: not called)
  bProp,      \* growth machine: one base prop's table values and the agent's level
  bLayered,   \* growth machine: the prop in PropState.sum() over the character and core layers
  bDirect,    \* growth machine: the prop in _get_agent_base_stats's result
  kStat,      \* schema machine: a stat of an equipped item, its type a StatType
  kWeapon,    \* schema machine: <<what LayerGenerator.weapon returned or raised>>
  kDiscs,     \* schema machine: <<what LayerGenerator.discs returned or raised>>
  tChar,      \* trace machine: the HSR character's eidolons_unlocked, eidolons and traces
  tStats      \* trace machine: what the traces added to chara_stats (<<>>: not processed)

layerVars == <<game, heap, cur, layers, raised, lastAdd, sumOut, sumIn, nAdds,
               sums>>
setVars == <<setGame, pieces, setSkill, suits, setOut>>
agentVars == <<zAgent, agentPc, agentErr, agentLocals, propState, calcPc,
               calcErr, calcLocals>>
roundVars == <<rBase, rRatio, rDelta, rOut>>
batchVars == <<batchClient, batch, batchPc, batchDone, playerDone>>
parVars == <<parGame, parHeap, parPc, parLayers, parAlone, parAdds>>
orderVars == <<oGame, oValues, oSum, oPermuted, oMerged>>
assetVars == <<consts_data, gLoaded, gBatch, gDone, gConsts>>
requestVars == <<cacheKind, cacheStore, now, req, call, fetched, nCalls>>
hsrVars == <<hChar, hStats, hLayers, hSum>>
displayVars == <<dNumber, dPlaces, dOut, dAgain>>
growthVars == <<bProp, bLayered, bDirect>>
schemaVars == <<kStat, kWeapon, kDiscs>>
traceVars == <<tChar, tStats>>
\* What an action of one machine leaves alone: the other machines' variables.
LayerFrame == UNCHANGED <<setVars, agentVars, roundVars, batchVars, parVars,
                          orderVars, assetVars, requestVars, hsrVars,
                          displayVars, growthVars, schemaVars, traceVars>>

SetFrame == UNCHANGED <<layerVars, agentVars, roundVars, batchVars, parVars,
                        orderVars, assetVars, requestVars, hsrVars,
                        displayVars, growthVars, schemaVars, traceVars>>

AgentFrame == UNCHANGED <<layerVars, setVars, roundVars, batchVars, parVars,
                          orderVars, assetVars, requestVars, hsrVars,
                          displayVars, growthVars, schemaVars, traceVars>>

RoundFrame == UNCHANGED <<layerVars, setVars, agentVars, batchVars, parVars,
                          orderVars, assetVars, requestVars, hsrVars,
                          displayVars, growthVars, schemaVars, traceVars>>

BatchFrame == UNCHANGED <<layerVars, setVars, agentVars, roundVars, parVars,
                          orderVars, assetVars, requestVars, hsrVars,
                          displayVars, growthVars, schemaVars, traceVars>>

ParFrame == UNCHANGED <<layerVars, setVars, agentVars, roundVars, batchVars,
                        orderVars, assetVars, requestVars, hsrVars,
                        displayVars, growthVars, schemaVars, traceVars>>

OrderFrame == UNCHANGED <<layerVars, setVars, agentVars, roundVars, batchVars,
                          parVars, assetVars, requestVars, hsrVars,
                          displayVars, growthVars, schemaVars, traceVars>>

AssetFrame == UNCHANGED <<layerVars, setVars, agentVars, roundVars, batchVars,
                          parVars, orderVars, requestVars, hsrVars,
                          displayVars, growthVars, schemaVars, traceVars>>

RequestFrame == UNCHANGED <<layerVars, setVars, agentVars, roundVars,
                            batchVars, parVars, orderVars, assetVars, hsrVars,
                            displayVars, growthVars, schemaVars, traceVars>>

HsrFrame == UNCHANGED <<layerVars, setVars, agentVars, roundVars, batchVars,
                        parVars, orderVars, assetVars, requestVars,
                        displayVars, growthVars, schemaVars, traceVars>>

DisplayFrame == UNCHANGED <<layerVars, setVars, agentVars, roundVars,
                            batchVars, parVars, orderVars, assetVars,
                            requestVars, hsrVars, growthVars, schemaVars,
                            traceVars>>

GrowthFrame == UNCHANGED <<layerVars, setVars, agentVars, roundVars,
                           batchVars, parVars, orderVars, assetVars,
                           requestVars, hsrVars, displayVars, schemaVars,
                           traceVars>>

SchemaFrame == UNCHANGED <<layerVars, setVars, agentVars, roundVars,
                           batchVars, parVars, orderVars, assetVars,
                           requestVars, hsrVars, displayVars, growthVars,
                           traceVars>>

TraceFrame == UNCHANGED <<layerVars, setVars, agentVars, roundVars, batchVars,
                          parVars, orderVars, assetVars, requestVars, hsrVars,
                          displayVars, growthVars, schemaVars>>

vars == <<game, heap, cur, layers, raised, lastAdd, sumOut, sumIn, nAdds,
          sums, setGame, pieces, setSkill, suits, setOut, zAgent, agentPc,
          agentErr, agentLocals, propState, calcPc, calcErr, calcLocals,
          rBase, rRatio, rDelta, rOut, batchClient, batch, batchPc, batchDone,
          playerDone, parGame, parHeap, parPc, parLayers, parAlone, parAdds,
          oGame, oValues, oSum, oPermuted, oMerged, consts_data, gLoaded,
          gBatch, gDone, gConsts, cacheKind, cacheStore, now, req, call,
          fetched, nCalls, hChar, hStats, hLayers, hSum, dNumber, dPlaces,
          dOut, dAgain, bProp, bLayered, bDirect, kStat, kWeapon, kDiscs,
          tChar, tStats>>

(***************************************************************************)
(* Bounds of the model.                                                    *)
(***************************************************************************)
MaxAdds == 2
MaxLayers == 2
MaxPieces == 6
MaxPromotion == 3
MaxCore == 2
MaxDiscs == 2
MaxRatioSteps == 10
MaxBatch == 3
MaxParLayers == 1
MaxCalls == 2
MaxNumber == 40
MaxPlaces == 2
MaxGrowth == 8
MaxGrowthLevel == 26
MaxBase == 2
MaxStatValue == 3
MaxTraceLevel == 2
MaxTraceCount == 2
MaxRelics == 4
MaxTraces == 1
MaxTime == 95
MaxGiBatch == 3
MaxOrderLayers == 3
MantissaBits == 4
FractionBits == 2

(***************************************************************************)
(* Numbers.                                                                *)
(***************************************************************************)
TEN_THOUSAND == 10000

\* The time a response stays in the cache, in seconds (ttl=60 in _request).
TTL == 60

\* The steps by which the clock of the request machine moves, in seconds:
\* just under half, half and just over half of the time to live.
TickSeconds == {TTL \div 2 - 1, TTL \div 2, TTL \div 2 + 1}

\* The fixed-point form of a whole number.
Fix(n) == n * TEN_THOUSAND

\* math.floor on a fixed-point value: the largest whole number not above it.
Floor(v) == (v \div TEN_THOUSAND) * TEN_THOUSAND

Range(s) == {s[i] : i \in 1..Len(s)}

(***************************************************************************)
(* The DefaultStatSet of each game, in the dicts' insertion order.         *)
(***************************************************************************)
ZZZ_KEY_ORDER ==
  <<
    "HpMax_Base", "HpMax_Ratio", "HpMax_Delta", "Atk_Base", "Atk_Ratio", "Atk_Delta",
    "BreakStun_Base", "BreakStun_Ratio", "SkipDefAtk_Base", "SkipDefAtk_Delta",
    "Def_Base", "Def_Ratio", "Def_Delta", "Crit_Base", "Crit_Delta", "CritDmg_Base",
    "CritDmg_Delta", "PenRatio_Base", "PenRatio_Delta", "PenDelta_Base",
    "PenDelta_Delta", "SpRecover_Base", "SpRecover_Ratio", "SpRecover_Delta",
    "ElementMystery_Base", "ElementMystery_Delta", "ElementAbnormalPower_Base",
    "ElementAbnormalPower_Ratio", "ElementAbnormalPower_Delta",
    "AddedDamageRatio_Physics_Base", "AddedDamageRatio_Physics_Delta",
    "AddedDamageRatio_Fire_Base", "AddedDamageRatio_Fire_Delta",
    "AddedDamageRatio_Ice_Base", "AddedDamageRatio_Ice_Delta",
    "AddedDamageRatio_Elec_Base", "AddedDamageRatio_Elec_Delta",
    "AddedDamageRatio_Ether_Base", "AddedDamageRatio_Ether_Delta", "RpRecover_Base",
    "RpRecover_Ratio", "RpRecover_Delta", "SkipDefDamageRatio_Base",
    "SkipDefDamageRatio_Delta"
  >>

HSR_KEY_ORDER ==
  <<
    "BaseHP", "HPAddedRatio", "HPDelta", "HPConvert", "BaseAttack", "AttackAddedRatio",
    "AttackDelta", "AttackConvert", "BaseDefence", "DefenceAddedRatio", "DefenceDelta",
    "DefenceConvert", "BaseSpeed", "SpeedAddedRatio", "SpeedDelta", "SpeedConvert",
    "CriticalChance", "CriticalChanceBase", "CriticalDamage", "CriticalDamageBase",
    "SPRatio", "SPRatioBase", "SPRatioConvert", "StatusProbability",
    "StatusProbabilityBase", "StatusProbabilityConvert", "StatusResistance",
    "StatusResistanceBase", "StatusResistanceConvert", "HealRatioBase",
    "HealRatioConvert", "HealTakenRatio", "ShieldAddedRatio", "ShieldTakenRatio",
    "AggroBase", "AggroAddedRatio", "AggroDelta", "BreakDamageAddedRatio",
    "BreakDamageAddedRatioBase", "AllDamageTypeResistance", "PhysicalResistanceDelta",
    "FireResistanceDelta", "IceResistanceDelta", "ThunderResistanceDelta",
    "QuantumResistanceDelta", "ImaginaryResistanceDelta", "WindResistanceDelta",
    "PhysicalPenetrate", "FirePenetrate", "IcePenetrate", "ThunderPenetrate",
    "QuantumPenetrate", "ImaginaryPenetrate", "WindPenetrate", "AllDamageTypeTakenRatio",
    "PhysicalTakenRatio", "FireTakenRatio", "IceTakenRatio", "ThunderTakenRatio",
    "QuantumTakenRatio", "ImaginaryTakenRatio", "WindTakenRatio",
    "AllDamageTypeAddedRatio", "DOTDamageAddedRatio", "PhysicalAddedRatio",
    "FireAddedRatio", "IceAddedRatio", "ThunderAddedRatio", "QuantumAddedRatio",
    "ImaginaryAddedRatio", "WindAddedRatio", "StanceBreakAddedRatio", "AllDamageReduce",
    "FatigueRatio", "MinimumFatigueRatio"
  >>

\* A mutant of DEFAULT_PROPS_ZZZ: the table carries a base value (5% crit rate).
DEFAULT_PROPS_ZZZ_CritBase ==
  [k \in Range(ZZZ_KEY_ORDER) |-> IF k = "Crit_Base" THEN 500 * TEN_THOUSAND ELSE 0]

DEFAULT_PROPS_ZZZ == [k \in Range(ZZZ_KEY_ORDER) |-> 0]

DEFAULT_PROPS_HSR == [k \in Range(HSR_KEY_ORDER) |-> 0]

\* PROP_ID_TO_NAME of calc/zzz.py, as (id, name) pairs.
PROP_ID_NAME_PAIRS ==
  {
    <<11101, "HpMax_Base">>,
    <<11102, "HpMax_Ratio">>,
    <<11103, "HpMax_Delta">>,
    <<12101, "Atk_Base">>,
    <<12102, "Atk_Ratio">>,
    <<12103, "Atk_Delta">>,
    <<12201, "BreakStun_Base">>,
    <<12202, "BreakStun_Ratio">>,
    <<12301, "SkipDefAtk_Base">>,
    <<12303, "SkipDefAtk_Delta">>,
    <<13101, "Def_Base">>,
    <<13102, "Def_Ratio">>,
    <<13103, "Def_Delta">>,
    <<20101, "Crit_Base">>,
    <<20103, "Crit_Delta">>,
    <<21101, "CritDmg_Base">>,
    <<21103, "CritDmg_Delta">>,
    <<23101, "PenRatio_Base">>,
    <<23103, "PenRatio_Delta">>,
    <<23201, "PenDelta_Base">>,
    <<23203, "PenDelta_Delta">>,
    <<30501, "SpRecover_Base">>,
    <<30502, "SpRecover_Ratio">>,
    <<30503, "SpRecover_Delta">>,
    <<31201, "ElementMystery_Base">>,
    <<31203, "ElementMystery_Delta">>,
    <<31401, "ElementAbnormalPower_Base">>,
    <<31402, "ElementAbnormalPower_Ratio">>,
    <<31403, "ElementAbnormalPower_Delta">>,
    <<31501, "AddedDamageRatio_Physics_Base">>,
    <<31503, "AddedDamageRatio_Physics_Delta">>,
    <<31601, "AddedDamageRatio_Fire_Base">>,
    <<31603, "AddedDamageRatio_Fire_Delta">>,
    <<31701, "AddedDamageRatio_Ice_Base">>,
    <<31703, "AddedDamageRatio_Ice_Delta">>,
    <<31801, "AddedDamageRatio_Elec_Base">>,
    <<31803, "AddedDamageRatio_Elec_Delta">>,
    <<31901, "AddedDamageRatio_Ether_Base">>,
    <<31903, "AddedDamageRatio_Ether_Delta">>,
    <<32001, "RpRecover_Base">>,
    <<32002, "RpRecover_Ratio">>,
    <<32003, "RpRecover_Delta">>,
    <<32201, "SkipDefDamageRatio_Base">>,
    <<32203, "SkipDefDamageRatio_Delta">>
  }

PROP_IDS == {p[1] : p \in PROP_ID_NAME_PAIRS}

PROP_ID_TO_NAME == [id \in PROP_IDS |-> (CHOOSE p \in PROP_ID_NAME_PAIRS : p[1] = id)[2]]

Games == {"hsr", "zzz"}

DefaultProps(g) == IF g = "zzz" THEN DEFAULT_PROPS_ZZZ ELSE DEFAULT_PROPS_HSR

KeyOrder(g) == IF g = "zzz" THEN ZZZ_KEY_ORDER ELSE HSR_KEY_ORDER

\* The names and values the caller passes to PropLayer.add.
AddNames == {"HpMax_Base", "BaseHP", "Typo_Name"}

AddValues == {-5000, 15000}

(***************************************************************************)
(* PropLayer.                                                              *)
(***************************************************************************)
\* The identity of a newly created object: the first one not in use.
NewId(h) == CHOOSE i \in 1..(Cardinality(DOMAIN h) + 1) :
              i \notin DOMAIN h /\ \A j \in 1..(i - 1) : j \in DOMAIN h

\* An object nothing refers to any more is collected.
Free(h, id) == [i \in DOMAIN h \ {id} |-> h[i]]

\* A mutant of PropLayerInit: self.props = DEFAULT_PROPS, without the copy.
PropLayerInitAlias(h) == [heap |-> h, id |-> 1]

\* PropLayer.__init__: self.props = DEFAULT_PROPS.copy(), a new dict object.
PropLayerInit(h) ==
  LET id == NewId(h)
  IN [heap |-> [i \in DOMAIN h \cup {id} |-> IF i = id THEN h[1] ELSE h[i]], id |-> id]

\* A mutant of PropLayerAdd: the membership test is dropped and an unknown
\* name is created, as a plain dict assignment would.
PropLayerAddNoCheck(h, id, name, value) ==
  [heap |-> [h EXCEPT ![id] =
               [k \in DOMAIN h[id] \cup {name} |->
                  IF k = name
                    THEN (IF name \in DOMAIN h[id] THEN h[id][name] ELSE 0) + value
                    ELSE h[id][k]]],
   raised |-> FALSE]

\* A mutant of PropLayerAdd: the value is stored under the name before the
\* test, and the error is raised after it.
PropLayerAddThenRaise(h, id, name, value) ==
  IF name \notin DOMAIN h[id]
    THEN [heap |-> [h EXCEPT ![id] = [k \in DOMAIN h[id] \cup {name} |->
                                        IF k = name THEN value ELSE h[id][k]]],
          raised |-> TRUE]
    ELSE [heap |-> [h EXCEPT ![id][name] = @ + value], raised |-> FALSE]

\* PropLayer.add: raise ValueError for a name that is no key, else props[name] += value.
PropLayerAdd(h, id, name, value) ==
  IF name \notin DOMAIN h[id]
    THEN [heap |-> h, raised |-> TRUE]
    ELSE [heap |-> [h EXCEPT ![id][name] = @ + value], raised |-> FALSE]

(***************************************************************************)
(* PropState.                                                              *)
(***************************************************************************)
\* What PropState.sum passes to sum_layer.add for one value of a layer.
SumTermHSR(value) == value

\* A mutant of SumTermZZZ: the value is added as it is, as in HSR.
SumTermZZZNoFloor(value) == value

\* math.floor(value)
SumTermZZZ(value) == Floor(value)

SumTerm(g, value) == IF g = "zzz" THEN SumTermZZZ(value) ELSE SumTermHSR(value)

\* The inner loop of PropState.sum, for key, value in layer.props.items():
\* sum_layer.add(key, term).  Each add touches the one cell it names, so the
\* pass over a layer's keys is written as one update of the target dict; it
\* raises when a key of the layer is no key of the target.
SumKeys(g, h, target, layer) ==
  IF \E k \in DOMAIN h[layer] : PropLayerAdd(h, target, k, 0).raised
    THEN [heap |-> h, raised |-> TRUE]
    ELSE [heap |-> [h EXCEPT ![target] =
                      [k \in DOMAIN h[target] |->
                         IF k \in DOMAIN h[layer]
                           THEN h[target][k] + SumTerm(g, h[layer][k])
                           ELSE h[target][k]]],
          raised |-> FALSE]

\* The outer loop of PropState.sum: for layer in self.layers.
RECURSIVE SumLayers(_, _, _, _, _)
SumLayers(g, h, target, ls, j) ==
  IF j > Len(ls) THEN [heap |-> h, raised |-> FALSE]
  ELSE LET r == SumKeys(g, h, target, ls[j])
       IN IF r.raised THEN r ELSE SumLayers(g, r.heap, target, ls, j + 1)

\* PropState.sum: a fresh PropLayer that every value of every layer is added to.
PropStateSum(g, h, ls) ==
  LET new == PropLayerInit(h)
      r == SumLayers(g, new.heap, new.id, ls, 1)
  IN [heap |-> r.heap, id |-> new.id, raised |-> r.raised]

\* The engine run on the given layer contents in the state the module has
\* right after import: DEFAULT_PROPS as written, no other object alive.
FreshSum(g, contents) ==
  LET h0 == [i \in 1..(Len(contents) + 1) |->
               IF i = 1 THEN DefaultProps(g) ELSE contents[i - 1]]
      r == PropStateSum(g, h0, [j \in 1..Len(contents) |-> j + 1])
  IN r.heap[r.id]

(***************************************************************************)
(* The layer machine: a caller that creates layers, adds to them, appends  *)
(* them to a PropState and sums.                                           *)
(***************************************************************************)
LayerInit ==
  /\ game \in Games
  /\ heap = [i \in {1} |-> DefaultProps(game)]
  /\ cur = 0
  /\ layers = <<>>
  /\ raised = FALSE
  /\ lastAdd = ""
  /\ sumOut = 0
  /\ sumIn = <<>>
  /\ nAdds = 0
  /\ sums = 0

\* layer = PropLayer(), once the caller has appended the layer it held
NewLayer ==
  /\ cur = 0 \/ cur \in Range(layers)
  /\ Len(layers) < MaxLayers
  /\ LET new == PropLayerInit(heap)
     IN /\ heap' = new.heap
        /\ cur' = new.id
  /\ UNCHANGED <<game, layers, raised, lastAdd, sumOut, sumIn, nAdds, sums>>
  /\ LayerFrame

\* layer.add(name, value)
Add ==
  /\ cur # 0
  /\ nAdds < MaxAdds
  /\ \E name \in AddNames, value \in AddValues :
       LET r == PropLayerAdd(heap, cur, name, value)
       IN /\ heap' = r.heap
          /\ raised' = r.raised
          /\ lastAdd' = name
  /\ nAdds' = nAdds + 1
  /\ UNCHANGED <<game, cur, layers, sumOut, sumIn, sums>>
  /\ LayerFrame

\* prop_state.add(layer)
StateAdd ==
  /\ cur # 0
  /\ Len(layers) < MaxLayers
  /\ layers' = Append(layers, cur)
  /\ UNCHANGED <<game, heap, cur, raised, lastAdd, sumOut, sumIn, nAdds, sums>>
  /\ LayerFrame

\* prop_sum = prop_state.sum(); the result of an earlier call is dropped
Sum ==
  /\ LET old == IF sumOut \in DOMAIN heap \ ({1, cur} \cup Range(layers))
                  THEN Free(heap, sumOut) ELSE heap
         r == PropStateSum(game, old, layers)
     IN /\ heap' = r.heap
        /\ sumOut' = r.id
        /\ sumIn' = [j \in 1..Len(layers) |-> heap[layers[j]]]
  /\ sums' = IF sums < 2 THEN sums + 1 ELSE sums
  /\ UNCHANGED <<game, cur, layers, raised, lastAdd, nAdds>>
  /\ LayerFrame

LayerNext == NewLayer \/ Add \/ StateAdd \/ Sum

(***************************************************************************)
(* Set bonuses: LayerGenerator.relic_set (HSR), LayerGenerator.disc_sets   *)
(* (ZZZ) and the set-bonus blocks of the two clients.                      *)
(***************************************************************************)
\* props[name] += value on a dict that is not shared: PropLayer.add on it.
AddTo(props, name, value) ==
  LET r == PropLayerAdd([i \in {2} |-> props], 2, name, value)
  IN [props |-> r.heap[2], raised |-> r.raised]

\* for key, value in frag.items(): layer.add(key, value)
AddAll(props, frag) ==
  IF \E k \in DOMAIN frag : AddTo(props, k, frag[k]).raised
    THEN [props |-> props, raised |-> TRUE]
    ELSE [props |-> [k \in DOMAIN props |->
                       IF k \in DOMAIN frag THEN AddTo(props, k, frag[k]).props[k]
                                            ELSE props[k]],
          raised |-> FALSE]

\* sets[set_id] += 1 over the pieces: how many pieces of each set are equipped.
Count(ps, id) == Cardinality({i \in 1..Len(ps) : ps[i] = id})

\* The keys of the counting defaultdict, in insertion order: each set id at
\* the place of its first piece.
RECURSIVE SetOrder(_)
SetOrder(ps) ==
  IF ps = <<>> THEN <<>>
  ELSE LET front == SetOrder(SubSeq(ps, 1, Len(ps) - 1))
           last == ps[Len(ps)]
       IN IF last \in Range(front) THEN front ELSE Append(front, last)

\* The set ids and the bonus props the static tables are drawn from.
HSR_SET_IDS == {101, 102}

HsrSetProps(id, tier) ==
  IF id = 101
    THEN IF tier = 2 THEN [k \in {"AttackAddedRatio"} |-> 1200]
                     ELSE [k \in {"SpeedAddedRatio"} |-> 600]
    ELSE IF tier = 2 THEN [k \in {"AttackAddedRatio", "HealRatioBase"} |-> 1000]
                     ELSE [k \in {"CriticalChanceBase"} |-> 800]

\* A setSkill table: a set is absent, holds its 2-piece entry only (as the
\* two-slot ornament sets do), or holds its 2-piece and 4-piece entries.
SetSkillTables ==
  {[id \in D |-> [t \in (IF id \in Full THEN {2, 4} ELSE {2}) |->
                    [props |-> HsrSetProps(id, t)]]] :
     D \in SUBSET HSR_SET_IDS, Full \in SUBSET HSR_SET_IDS}

ZZZ_SET_IDS == {31000, 32700}

ZzzSetBonusProps(id) ==
  IF id = 31000 THEN [p \in {20103} |-> 800] ELSE [p \in {20103, 23103} |-> 600]

SuitsTables ==
  {[id \in D |-> [SetBonusProps |-> ZzzSetBonusProps(id)]] : D \in SUBSET ZZZ_SET_IDS}

Pending == [done |-> FALSE, raised |-> FALSE, props |-> <<>>]

Returned(props) == [done |-> TRUE, raised |-> FALSE, props |-> props]

\* The call ended in an exception (KeyError or ValueError): nothing is returned.
Raised == [done |-> TRUE, raised |-> TRUE, props |-> <<>>]

\* A mutant of RelicSetStep: the 4-piece bonus replaces the 2-piece bonus
\* (elif count >= 2 after if count >= 4).
RelicSetStepExclusive(layer, table, id, count) ==
  IF count >= 4
    THEN IF id \notin DOMAIN table \/ 4 \notin DOMAIN table[id]
           THEN [props |-> layer, raised |-> TRUE]
           ELSE AddAll(layer, table[id][4].props)
    ELSE IF count >= 2
      THEN IF id \notin DOMAIN table \/ 2 \notin DOMAIN table[id]
             THEN [props |-> layer, raised |-> TRUE]
             ELSE AddAll(layer, table[id][2].props)
      ELSE [props |-> layer, raised |-> FALSE]

\* One pass of the loop of LayerGenerator.relic_set (HSR) for a set id: the
\* subscripts raise KeyError when the table lacks the set id or the count.
RelicSetStep(layer, table, id, count) ==
  LET two == IF count >= 2
               THEN IF id \notin DOMAIN table \/ 2 \notin DOMAIN table[id]
                      THEN [props |-> layer, raised |-> TRUE]
                      ELSE AddAll(layer, table[id][2].props)
               ELSE [props |-> layer, raised |-> FALSE]
  IN IF two.raised THEN two
     ELSE IF count >= 4
       THEN IF 4 \notin DOMAIN table[id]
              THEN [props |-> two.props, raised |-> TRUE]
              ELSE AddAll(two.props, table[id][4].props)
       ELSE two

\* LayerGenerator.relic_set (HSR): for relic_set_id, count in sets.items().
RECURSIVE RelicSetLoop(_, _, _, _, _)
RelicSetLoop(layer, table, ps, order, i) ==
  IF i > Len(order) THEN Returned(layer)
  ELSE LET r == RelicSetStep(layer, table, order[i], Count(ps, order[i]))
       IN IF r.raised THEN Raised ELSE RelicSetLoop(r.props, table, ps, order, i + 1)

relic_set(table, ps) == RelicSetLoop(DEFAULT_PROPS_HSR, table, ps, SetOrder(ps), 1)

\* DEFAULT_STATS of enka/constants/hsr.py, the table the HSR client adds up
\* in: every stat key with value 0.
DEFAULT_STATS == DEFAULT_PROPS_HSR

\* update_stats of enka/utils.py: add each value of new to the table.
update_stats(stats, new) ==
  [k \in DOMAIN stats \cup DOMAIN new |->
     (IF k \in DOMAIN stats THEN stats[k] ELSE 0) + (IF k \in DOMAIN new THEN new[k] ELSE 0)]

\* for i in range(1, count + 1): the entry for i pieces, if the set has one.
RECURSIVE ClientRelicSetTiers(_, _, _, _)
ClientRelicSetTiers(stats, entry, count, i) ==
  IF i > count THEN stats
  ELSE ClientRelicSetTiers(
         IF i \in DOMAIN entry THEN update_stats(stats, entry[i].props) ELSE stats,
         entry, count, i + 1)

\* The "Add relic set stats" block of HSRClient._add_up_character_stats: the
\* subscript by the set id raises KeyError, the .get by the count does not.
RECURSIVE ClientRelicSetLoop(_, _, _, _, _)
ClientRelicSetLoop(stats, table, ps, order, i) ==
  IF i > Len(order) THEN Returned(stats)
  ELSE IF Count(ps, order[i]) >= 1 /\ order[i] \notin DOMAIN table THEN Raised
  ELSE ClientRelicSetLoop(
         ClientRelicSetTiers(stats, table[order[i]], Count(ps, order[i]), 1),
         table, ps, order, i + 1)

ClientRelicSets(table, ps) == ClientRelicSetLoop(DEFAULT_STATS, table, ps, SetOrder(ps), 1)

\* A mutant of DiscSetStep: a second tier as in HSR, the bonus is added again
\* from four pieces on.
DiscSetStepTiered(layer, table, id, count) ==
  IF count < 2 THEN [props |-> layer, raised |-> FALSE]
  ELSE IF id \notin DOMAIN table THEN [props |-> layer, raised |-> TRUE]
  ELSE LET bonus == table[id].SetBonusProps
           times == IF count >= 4 THEN 2 ELSE 1
       IN IF \E pid \in DOMAIN bonus : pid \notin DOMAIN PROP_ID_TO_NAME
            THEN [props |-> layer, raised |-> TRUE]
            ELSE AddAll(layer, [n \in {PROP_ID_TO_NAME[pid] : pid \in DOMAIN bonus} |->
                                  times * Fix(bonus[CHOOSE pid \in DOMAIN bonus :
                                                      PROP_ID_TO_NAME[pid] = n])])

\* One pass of the loop of LayerGenerator.disc_sets (ZZZ) for a set id: the
\* subscript by the set id raises KeyError when the table lacks it.
DiscSetStep(layer, table, id, count) ==
  IF count < 2 THEN [props |-> layer, raised |-> FALSE]
  ELSE IF id \notin DOMAIN table THEN [props |-> layer, raised |-> TRUE]
  ELSE LET bonus == table[id].SetBonusProps
       IN IF \E pid \in DOMAIN bonus : pid \notin DOMAIN PROP_ID_TO_NAME
            THEN [props |-> layer, raised |-> TRUE]
            ELSE AddAll(layer, [n \in {PROP_ID_TO_NAME[pid] : pid \in DOMAIN bonus} |->
                                  Fix(bonus[CHOOSE pid \in DOMAIN bonus :
                                              PROP_ID_TO_NAME[pid] = n])])

\* LayerGenerator.disc_sets (ZZZ): for set_id, count in sets.items().
RECURSIVE DiscSetLoop(_, _, _, _, _)
DiscSetLoop(layer, table, ps, order, i) ==
  IF i > Len(order) THEN Returned(layer)
  ELSE LET r == DiscSetStep(layer, table, order[i], Count(ps, order[i]))
       IN IF r.raised THEN Raised ELSE DiscSetLoop(r.props, table, ps, order, i + 1)

disc_sets(table, ps) == DiscSetLoop(DEFAULT_PROPS_ZZZ, table, ps, SetOrder(ps), 1)

\* stats[key] += value on the client's defaultdict(int).
DefaultDictAdd(stats, key, value) ==
  [k \in DOMAIN stats \cup {key} |->
     IF k = key THEN (IF key \in DOMAIN stats THEN stats[key] ELSE 0) + value
                ELSE stats[k]]

\* for prop_id_str, prop_val in set_effect.items(): stats[int(prop_id_str)] += prop_val
DefaultDictAddAll(stats, new) ==
  [k \in DOMAIN stats \cup DOMAIN new |->
     IF k \in DOMAIN new THEN DefaultDictAdd(stats, k, new[k])[k] ELSE stats[k]]

\* ZZZClient._add_disc_set_bonus_stats: a set the table lacks is logged and
\* skipped.
RECURSIVE ClientDiscSetLoop(_, _, _, _, _)
ClientDiscSetLoop(stats, table, ps, order, i) ==
  IF i > Len(order) THEN stats
  ELSE ClientDiscSetLoop(
         IF Count(ps, order[i]) < 2 \/ order[i] \notin DOMAIN table
           THEN stats
           ELSE DefaultDictAddAll(stats, table[order[i]].SetBonusProps),
         table, ps, order, i + 1)

_add_disc_set_bonus_stats(stats, table, ps) ==
  ClientDiscSetLoop(stats, table, ps, SetOrder(ps), 1)

(***************************************************************************)
(* The set machine: equipped pieces and a static table are given; each     *)
(* implementation of the game is run on them.                              *)
(***************************************************************************)
SeqsUpTo(S, n) == UNION {[1..m -> S] : m \in 0..n}

Impls(g) == IF g = "hsr" THEN {"relic_set", "hsr_client"} ELSE {"disc_sets", "zzz_client"}

SetInit ==
  /\ setGame \in Games
  /\ pieces \in SeqsUpTo(IF setGame = "hsr" THEN HSR_SET_IDS ELSE ZZZ_SET_IDS, MaxPieces)
  /\ setSkill \in (IF setGame = "hsr" THEN SetSkillTables ELSE {<<>>})
  /\ suits \in (IF setGame = "zzz" THEN SuitsTables ELSE {<<>>})
  /\ setOut = [i \in Impls(setGame) |-> Pending]

RunRelicSet ==
  /\ setGame = "hsr"
  /\ ~setOut["relic_set"].done
  /\ setOut' = [setOut EXCEPT !["relic_set"] = relic_set(setSkill, pieces)]
  /\ UNCHANGED <<setGame, pieces, setSkill, suits>>
  /\ SetFrame

RunClientRelicSets ==
  /\ setGame = "hsr"
  /\ ~setOut["hsr_client"].done
  /\ setOut' = [setOut EXCEPT !["hsr_client"] = ClientRelicSets(setSkill, pieces)]
  /\ UNCHANGED <<setGame, pieces, setSkill, suits>>
  /\ SetFrame

RunDiscSets ==
  /\ setGame = "zzz"
  /\ ~setOut["disc_sets"].done
  /\ setOut' = [setOut EXCEPT !["disc_sets"] = disc_sets(suits, pieces)]
  /\ UNCHANGED <<setGame, pieces, setSkill, suits>>
  /\ SetFrame

RunClientDiscSets ==
  /\ setGame = "zzz"
  /\ ~setOut["zzz_client"].done
  /\ setOut' = [setOut EXCEPT !["zzz_client"] =
                   Returned(_add_disc_set_bonus_stats(<<>>, suits, pieces))]
  /\ UNCHANGED <<setGame, pieces, setSkill, suits>>
  /\ SetFrame

SetNext == RunRelicSet \/ RunClientRelicSets \/ RunDiscSets \/ RunClientDiscSets

(***************************************************************************)
(* The parallel machine: two characters of one batch are evaluated at the  *)
(* same time.  Each has its own PropState and generates its layers, adds   *)
(* to them and sums, one step at a time, in any interleaving with the      *)
(* other; all the dict objects live on one heap.                           *)
(***************************************************************************)
Characters == {1, 2}

Other(c) == CHOOSE d \in Characters : d # c

\* A mutant of PropStateAdd: layers is a class attribute, one list that
\* every PropState appends to.
PropStateAddShared(ls, c, id) == [d \in DOMAIN ls |-> Append(ls[d], id)]

\* PropState.__init__ and PropState.add: self.layers is the instance's own
\* list, self.layers.append(layer).
PropStateAdd(ls, c, id) == [ls EXCEPT ![c] = Append(@, id)]

\* The character's evaluation has begun and its sum is not yet complete.
Underway(c) ==
  /\ parPc[c].cur # 0 \/ parLayers[c] # <<>> \/ parPc[c].sum # 0
  /\ ~(parPc[c].sum # 0 /\ parPc[c].at > Len(parLayers[c]))

\* What a step of character c records beside its effect: whether it was
\* taken while the other character's evaluation was underway.
Overlap(c) == parPc[c].overlap \/ Underway(Other(c))

ParInit ==
  /\ parGame \in Games
  /\ parHeap = [i \in {1} |-> DefaultProps(parGame)]
  /\ parPc = [c \in Characters |-> [cur |-> 0, sum |-> 0, at |-> 0, overlap |-> FALSE]]
  /\ parLayers = [c \in Characters |-> <<>>]
  /\ parAlone = [c \in Characters |-> [cur |-> <<>>, layers |-> <<>>]]
  /\ parAdds = 0

\* layer = PropLayer() at the start of a generator of character c
ParNewLayer ==
  \E c \in Characters :
    /\ parPc[c].cur = 0 /\ parPc[c].sum = 0
    /\ Len(parLayers[c]) < MaxParLayers
    /\ LET new == PropLayerInit(parHeap)
       IN /\ parHeap' = new.heap
          /\ parPc' = [parPc EXCEPT ![c].cur = new.id, ![c].overlap = Overlap(c)]
    /\ parAlone' = [parAlone EXCEPT ![c].cur = DefaultProps(parGame)]
    /\ UNCHANGED <<parGame, parLayers, parAdds>>
    /\ ParFrame

\* layer.add(name, value) in a generator of character c
ParAdd ==
  \E c \in Characters, name \in AddNames \cap DOMAIN DefaultProps(parGame),
     value \in AddValues :
    /\ parPc[c].cur # 0
    /\ parAdds < MaxAdds
    /\ parHeap' = PropLayerAdd(parHeap, parPc[c].cur, name, value).heap
    /\ parPc' = [parPc EXCEPT ![c].overlap = Overlap(c)]
    /\ parAlone' = [parAlone EXCEPT ![c].cur = AddTo(@, name, value).props]
    /\ parAdds' = parAdds + 1
    /\ UNCHANGED <<parGame, parLayers>>
    /\ ParFrame

\* the generator returns and character c's caller does prop_state.add(layer)
ParStateAdd ==
  \E c \in Characters :
    /\ parPc[c].cur # 0
    /\ parLayers' = PropStateAdd(parLayers, c, parPc[c].cur)
    /\ parPc' = [parPc EXCEPT ![c].cur = 0, ![c].overlap = Overlap(c)]
    /\ parAlone' = [parAlone EXCEPT ![c].cur = <<>>, ![c].layers = Append(@, parAlone[c].cur)]
    /\ UNCHANGED <<parGame, parHeap, parAdds>>
    /\ ParFrame

\* prop_state.sum() of character c begins: sum_layer = PropLayer()
ParSumBegin ==
  \E c \in Characters :
    /\ parPc[c].cur = 0 /\ parPc[c].sum = 0
    /\ LET new == PropLayerInit(parHeap)
       IN /\ parHeap' = new.heap
          /\ parPc' = [parPc EXCEPT ![c].sum = new.id, ![c].at = 1, ![c].overlap = Overlap(c)]
    /\ UNCHANGED <<parGame, parLayers, parAlone, parAdds>>
    /\ ParFrame

\* one pass of for layer in self.layers of character c's sum()
ParSumStep ==
  \E c \in Characters :
    /\ parPc[c].sum # 0
    /\ parPc[c].at <= Len(parLayers[c])
    /\ parHeap' = SumKeys(parGame, parHeap, parPc[c].sum, parLayers[c][parPc[c].at]).heap
    /\ parPc' = [parPc EXCEPT ![c].at = @ + 1, ![c].overlap = Overlap(c)]
    /\ UNCHANGED <<parGame, parLayers, parAlone, parAdds>>
    /\ ParFrame

ParNext == ParNewLayer \/ ParAdd \/ ParStateAdd \/ ParSumBegin \/ ParSumStep

(***************************************************************************)
(* The order machine: the same layers summed in every order, and with two  *)
(* layers merged into one.  sum() treats every key by itself, so a layer   *)
(* is the value it holds for one key.                                      *)
(*                                                                         *)
(* Here the numbers are binary floating-point numbers, as Python's floats  *)
(* are, with MantissaBits bits in place of 53: a value is a whole number   *)
(* of units of 2^-FractionBits, and the result of an addition is rounded   *)
(* to MantissaBits significant bits, ties to even.  Python ints are exact. *)
(***************************************************************************)
Unit == 2 ^ FractionBits

RECURSIVE BitLength(_)
BitLength(n) == IF n = 0 THEN 0 ELSE 1 + BitLength(n \div 2)

Abs(n) == IF n < 0 THEN -n ELSE n

\* The float nearest to an exact value n >= 0: n itself when it fits the
\* mantissa, else the low bits are dropped, rounding to nearest, ties to even.
RoundMagnitude(n) ==
  IF BitLength(n) <= MantissaBits THEN n
  ELSE LET step == 2 ^ (BitLength(n) - MantissaBits)
           q == n \div step
           r == n % step
       IN IF 2 * r > step \/ (2 * r = step /\ q % 2 = 1) THEN (q + 1) * step ELSE q * step

FloatRound(n) == IF n < 0 THEN -RoundMagnitude(-n) ELSE RoundMagnitude(n)

\* a + b on floats: the exact sum, rounded.
FloatAdd(a, b) == FloatRound(a + b)

\* math.floor of a float: a Python int.
FloatFloor(v) == (v \div Unit) * Unit

\* A mutant of SumStep: ZZZ adds the value itself, as HSR does.
SumStepNoFloor(g, running, value) == FloatAdd(running, value)

\* One sum_layer.add of PropState.sum for the key.  In ZZZ the running sum
\* and math.floor(value) are ints and their sum is exact; in HSR the value is
\* a float and so is the sum.
SumStep(g, running, value) ==
  IF g = "zzz" THEN running + FloatFloor(value) ELSE FloatAdd(running, value)

\* PropState.sum for the key: the fold of SumStep over the layers, from
\* DEFAULT_PROPS' 0.
RECURSIVE OrderSum(_, _, _)
OrderSum(g, values, j) ==
  IF j = 0 THEN 0 ELSE SumStep(g, OrderSum(g, values, j - 1), values[j])

\* The layers in another order: place i holds the layer of place perm[i].
Permuted(values, perm) == [i \in 1..Len(values) |-> values[perm[i]]]

Orders(n) == {perm \in [1..n -> 1..n] : \A i, j \in 1..n : i # j => perm[i] # perm[j]}

\* Layers i and j merged: one generator makes both contributions to one
\* layer, layer.add(key, values[i]); layer.add(key, values[j]).
Merged(values, i, j) ==
  LET both == FloatAdd(FloatAdd(0, values[i]), values[j])
      rest == [k \in 1..(Len(values) - 1) |->
                 IF k < i THEN values[k]
                 ELSE IF k = i THEN both
                 ELSE IF k < j THEN values[k] ELSE values[k + 1]]
  IN rest

\* The values a layer holds: floats of at most MantissaBits bits, some whole
\* and some not; their whole parts stay far below 2^MantissaBits, as game
\* values stay far below 2^53.
OrderValues == {-3, 1, 6, 11, 13}

OrderInit ==
  /\ oGame \in Games
  /\ oValues \in SeqsUpTo(OrderValues, MaxOrderLayers)
  /\ oSum = <<>>
  /\ oPermuted = {}
  /\ oMerged = {}

\* prop_state.sum() on the layers as they were added
RunOrderSum ==
  /\ oSum = <<>>
  /\ oSum' = <<OrderSum(oGame, oValues, Len(oValues))>>
  /\ UNCHANGED <<oGame, oValues, oPermuted, oMerged>>
  /\ OrderFrame

\* prop_state.sum() on the same layers added in another order
RunPermutedSum ==
  /\ oSum # <<>>
  /\ \E perm \in Orders(Len(oValues)) :
       oPermuted' = oPermuted \cup {OrderSum(oGame, Permuted(oValues, perm), Len(oValues))}
  /\ UNCHANGED <<oGame, oValues, oSum, oMerged>>
  /\ OrderFrame

\* prop_state.sum() on the layers with two of them merged into one
RunMergedSum ==
  /\ oSum # <<>>
  /\ \E i, j \in 1..Len(oValues) :
       /\ i < j
       /\ oMerged' = oMerged \cup {OrderSum(oGame, Merged(oValues, i, j), Len(oValues) - 1)}
  /\ UNCHANGED <<oGame, oValues, oSum, oPermuted>>
  /\ OrderFrame

OrderNext == RunOrderSum \/ RunPermutedSum \/ RunMergedSum

(***************************************************************************)
(* The asset machine: the GI client post-processes the characters of a     *)
(* showcase one after another against the loaded asset bundle.             *)
(***************************************************************************)
\* consts_data as loaded: each record holds its name hash and its icon.
CONSTS_DATA ==
  [cid \in {2081, 2082, 3141} |->
     [k \in {"nameTextMapHash", "icon"} |->
        IF k = "nameTextMapHash" THEN cid * 10
        ELSE IF cid = 2081 THEN "UI_Talent_S_Ayaka_01"
        ELSE IF cid = 2082 THEN "UI_Talent_S_Ayaka_02"
        ELSE "UI_Talent_S_Barbara_01"]]

\* character_data[...]["Consts"]: the constellation icons of each character.
GI_CHARACTER_CONSTS ==
  [id \in {10000002, 10000014, 10000005} |->
     IF id = 10000002 THEN {"UI_Talent_S_Ayaka_01", "UI_Talent_S_Ayaka_02"}
     ELSE IF id = 10000014 THEN {"UI_Talent_S_Barbara_01"}
     ELSE {}]

\* A character of the showcase: its id, its skill depot and the ids of the
\* constellations it has unlocked.
GiCharacters ==
  {[id |-> 10000002, skill_depot_id |-> 201, unlocked |-> {}],
   [id |-> 10000002, skill_depot_id |-> 201, unlocked |-> {2081}],
   [id |-> 10000014, skill_depot_id |-> 1401, unlocked |-> {3141}],
   [id |-> 10000005, skill_depot_id |-> 501, unlocked |-> {}]}

\* GenshinClient._post_process_constellations: the loop over
\* consts_data.items() writes const["id"] = const_id into every record whose
\* icon the character lists, then builds the character's constellations from
\* those records.
_post_process_constellations(table, c) ==
  LET hit == {cid \in DOMAIN table : table[cid]["icon"] \in GI_CHARACTER_CONSTS[c.id]}
      written == [cid \in DOMAIN table |->
                    IF cid \in hit
                      THEN [k \in DOMAIN table[cid] \cup {"id"} |->
                              IF k = "id" THEN cid ELSE table[cid][k]]
                      ELSE table[cid]]
  IN [table |-> written,
      constellations |-> {[id |-> written[cid]["id"],
                           name |-> written[cid]["nameTextMapHash"],
                           icon |-> written[cid]["icon"],
                           unlocked |-> written[cid]["id"] \in c.unlocked] : cid \in hit}]

AssetInit ==
  /\ consts_data = CONSTS_DATA
  /\ gLoaded = CONSTS_DATA
  /\ gBatch \in SeqsUpTo(GiCharacters, MaxGiBatch)
  /\ gDone = 0
  /\ gConsts = {}

\* GenshinClient._post_process_character on the next character of the
\* showcase; the traveler without an element skips the constellations.
PostProcessCharacterGI ==
  /\ gDone < Len(gBatch)
  /\ LET c == gBatch[gDone + 1]
         r == _post_process_constellations(consts_data, c)
     IN IF c.skill_depot_id \in {501, 701}
          THEN UNCHANGED <<consts_data, gConsts>>
          ELSE consts_data' = r.table /\ gConsts' = r.constellations
  /\ gDone' = gDone + 1
  /\ UNCHANGED <<gLoaded, gBatch>>
  /\ AssetFrame

AssetNext == PostProcessCharacterGI

(***************************************************************************)
(* The request machine: BaseClient._request with its cache.  A call checks *)
(* the cache, and on a miss waits for the network's answer; time passes    *)
(* between the steps.                                                      *)
(***************************************************************************)
URLS == {"uid/1", "uid/2"}

\* What the server holds for a url changes over time: a document version.
Versions == {1, 2}

\* The HTTP statuses the server answers with; 418 stands for every status
\* that raise_for_retcode does not name.
Statuses == {200, 400, 404, 424, 429, 500, 503, 504, 418}

\* What goes wrong without an HTTP status: the request times out
\* (asyncio.TimeoutError) or the connection fails (aiohttp.ClientError).
Failures == {"TimeoutError", "ClientError"}

\* resp.json(): the parsed document.
Document(url, version) == [url |-> url, version |-> version]

\* orjson.dumps(data).decode(): the document as JSON text.
Dumps(data) == <<"json", data.url, data.version>>

\* orjson.loads(cached.encode()): the text parsed back.
Loads(text) == [url |-> text[2], version |-> text[3]]

\* raise_for_retcode: the exception class raised for a status.
raise_for_retcode(retcode) ==
  IF retcode = 400 THEN "WrongUIDFormatError"
  ELSE IF retcode = 404 THEN "PlayerDoesNotExistError"
  ELSE IF retcode = 424 THEN "GameMaintenanceError"
  ELSE IF retcode = 429 THEN "RateLimitedError"
  ELSE IF retcode = 500 THEN "GeneralServerError"
  ELSE IF retcode = 503 THEN "AlgoScrewedUpMassivelyError"
  ELSE IF retcode = 504 THEN "GatewayTimeoutError"
  ELSE "EnkaAPIError"

\* isinstance(e, EnkaAPIError): the classes of errors.py derived from it.
IsEnkaAPIError(e) ==
  e \in {"EnkaAPIError", "WrongUIDFormatError", "PlayerDoesNotExistError",
         "GameMaintenanceError", "RateLimitedError", "GeneralServerError",
         "AlgoScrewedUpMassivelyError", "GatewayTimeoutError"}

\* A mutant of RequestHandler: every exception is wrapped, raise EnkaAPIError
\* from e without the isinstance test.
RequestHandlerWrapAll(e) ==
  IF e = "TimeoutError" THEN "APIRequestTimeoutError" ELSE "EnkaAPIError"

\* The except Exception handler of _request: the exception that leaves it.
RequestHandler(e) ==
  IF e = "TimeoutError" THEN "APIRequestTimeoutError"
  ELSE IF IsEnkaAPIError(e) THEN e
  ELSE "EnkaAPIError"

\* A mutant of clear_expired: the comparison is turned around and the
\* entries that have not expired are deleted.
ClearExpiredFresh(kind, store, t) ==
  [u \in {v \in DOMAIN store : t >= store[v].expires_at} |-> store[u]]

\* clear_expired: MemoryCache deletes the entries with now >= expires_at,
\* SQLiteCache those with expires_at < now.
clear_expired(kind, store, t) ==
  LET expired(u) == IF kind = "memory" THEN t >= store[u].expires_at
                                       ELSE store[u].expires_at < t
  IN [u \in {v \in DOMAIN store : ~expired(v)} |-> store[u]]

\* get: the stored value, None (here <<>>) for a key that is not there.
CacheGet(store, key) == IF key \in DOMAIN store THEN store[key].value ELSE <<>>

\* set: the value with its expiry time, replacing an earlier entry.
CacheSet(store, key, value, ttl, t) ==
  [u \in DOMAIN store \cup {key} |->
     IF u = key THEN [expires_at |-> t + ttl, value |-> value] ELSE store[u]]

NoRequest == [pc |-> "idle", url |-> "", at |-> 0, prior |-> <<>>]

RequestInit ==
  /\ cacheKind \in {"none", "memory", "sqlite"}
  /\ cacheStore = <<>>
  /\ now = 0
  /\ req = NoRequest
  /\ call = <<>>
  /\ fetched = <<>>
  /\ nCalls = 0

\* time.time() moves on
Tick ==
  /\ \E d \in TickSeconds : now' = now + d
  /\ now' <= MaxTime
  /\ UNCHANGED <<cacheKind, cacheStore, req, call, fetched, nCalls>>
  /\ RequestFrame

\* _request(url) up to the network request: with a cache, clear_expired and
\* get; a hit is parsed and returned, a miss sends the request.
RequestBegin ==
  /\ req.pc = "idle"
  /\ nCalls < MaxCalls
  /\ \E url \in URLS :
       LET prior == IF url \in DOMAIN fetched THEN fetched[url] ELSE <<>>
           store == IF cacheKind = "none" THEN cacheStore
                    ELSE clear_expired(cacheKind, cacheStore, now)
           cached == IF cacheKind = "none" THEN <<>> ELSE CacheGet(store, url)
       IN /\ cacheStore' = store
          /\ IF cached # <<>>
               THEN /\ call' = [url |-> url, at |-> now, prior |-> prior, network |-> FALSE,
                                status |-> 0, raised |-> "", data |-> Loads(cached)]
                    /\ req' = NoRequest
               ELSE /\ req' = [pc |-> "waiting", url |-> url, at |-> now, prior |-> prior]
                    /\ call' = call
  /\ nCalls' = nCalls + 1
  /\ UNCHANGED <<cacheKind, now, fetched>>
  /\ RequestFrame

\* The network answers: a status other than 200 raises; else the document is
\* parsed, stored in the cache for 60 seconds and returned.
RequestAnswer ==
  /\ req.pc = "waiting"
  /\ \E status \in Statuses, version \in Versions :
       LET data == Document(req.url, version)
       IN IF status # 200
            THEN /\ call' = [url |-> req.url, at |-> req.at, prior |-> req.prior,
                             network |-> TRUE, status |-> status,
                             raised |-> RequestHandler(raise_for_retcode(status)),
                             data |-> <<>>]
                 /\ UNCHANGED <<cacheStore, fetched>>
            ELSE /\ call' = [url |-> req.url, at |-> req.at, prior |-> req.prior,
                             network |-> TRUE, status |-> status, raised |-> "", data |-> data]
                 /\ cacheStore' = IF cacheKind = "none" THEN cacheStore
                                  ELSE CacheSet(cacheStore, req.url, Dumps(data), TTL, now)
                 /\ fetched' = [u \in DOMAIN fetched \cup {req.url} |->
                                  IF u = req.url THEN [at |-> now, data |-> data]
                                  ELSE fetched[u]]
  /\ req' = NoRequest
  /\ UNCHANGED <<cacheKind, now, nCalls>>
  /\ RequestFrame

\* The network does not answer: the request times out or the connection
\* fails, and the handler turns the exception into one of the package's.
RequestFails ==
  /\ req.pc = "waiting"
  /\ \E e \in Failures :
       call' = [url |-> req.url, at |-> req.at, prior |-> req.prior, network |-> TRUE,
                status |-> 0, raised |-> RequestHandler(e), data |-> <<>>]
  /\ req' = NoRequest
  /\ UNCHANGED <<cacheKind, cacheStore, now, fetched, nCalls>>
  /\ RequestFrame

RequestNext == Tick \/ RequestBegin \/ RequestAnswer \/ RequestFails

(***************************************************************************)
(* The HSR character: the static tables meta_data, the layer generators of *)
(* calc/hsr.py with the properties of the summed layer, and the client's   *)
(* _add_up_character_stats and final_stats.  Amounts (HP, ATK, DEF, speed  *)
(* and the Delta and Convert keys) are whole numbers; rates (the           *)
(* AddedRatio keys, crit, SPRatio...) are in ten-thousandths, so that 1 is *)
(* TEN_THOUSAND; a compound stat, a product of the two, is in              *)
(* ten-thousandths.                                                        *)
(***************************************************************************)
\* meta_data["avatar"][id][ascension]
HSR_AVATAR ==
  [id \in {1001} |->
     [asc \in {0, 1} |->
        [HPBase |-> 144 + 58 * asc, HPAdd |-> 7, AttackBase |-> 69 + 28 * asc,
         AttackAdd |-> 3, DefenceBase |-> 78 + 31 * asc, DefenceAdd |-> 4,
         SpeedBase |-> 101, CriticalChance |-> 500, CriticalDamage |-> 5000,
         BaseAggro |-> 150]]]

\* meta_data["equipment"][id][ascension]
HSR_EQUIPMENT ==
  [id \in {20000, 21001} |->
     [asc \in {0, 1} |->
        [BaseHP |-> 38 + 46 * asc, HPAdd |-> 6, BaseAttack |-> 14 + 17 * asc,
         AttackAdd |-> 2, BaseDefence |-> 12 + 14 * asc, DefenceAdd |-> 1]]]

\* meta_data["equipmentSkill"][id][superimpose]: light cone 20000 has no entry.
HSR_EQUIPMENT_SKILL ==
  [id \in {21001} |->
     [s \in {1, 2} |->
        [props |-> [k \in {"DefenceAddedRatio", "SPRatioBase"} |->
                      IF k = "SPRatioBase" THEN 600 + 200 * s ELSE 1400 + 200 * s]]]]

\* The levels a trace of the trace machine can reach: its own and the boosts
\* of the eidolons below.
TreeLevels == MaxTraceLevel + 3

\* meta_data["tree"][id][level]: the stat nodes of the skill tree with their
\* one level, and two nodes with a row for each level; the node 1001001 has
\* no entry.
HSR_TREE ==
  [id \in {1001201, 1001202, 1001002, 1001003} |->
     [l \in (IF id \in {1001201, 1001202} THEN {1} ELSE 1..TreeLevels) |->
        [props |-> IF id = 1001201 THEN [k \in {"HPAddedRatio"} |-> 400]
                   ELSE IF id = 1001202
                     THEN [k \in {"SpeedDelta", "HPConvert"} |->
                             IF k = "SpeedDelta" THEN 2 ELSE 30]
                   ELSE IF id = 1001002 THEN [k \in {"AttackAddedRatio"} |-> 100 * l]
                   ELSE [k \in {"SpeedDelta"} |-> l]]]]

\* meta_data["relic"]["setSkill"] with both entries of both sets.
HSR_SET_SKILL ==
  [id \in HSR_SET_IDS |-> [t \in {2, 4} |-> [props |-> HsrSetProps(id, t)]]]

\* for key, value in frag.items(): layer.add(key, value), for each of frags.
RECURSIVE AddFragments(_, _, _)
AddFragments(props, frags, i) ==
  IF i > Len(frags) THEN [props |-> props, raised |-> FALSE]
  ELSE LET r == AddAll(props, frags[i])
       IN IF r.raised THEN r ELSE AddFragments(r.props, frags, i + 1)

\* A mutant of character_hsr: the layer.add("SPRatio", 1) is left out.
CharacterNoSPRatio(c) ==
  LET promotion == HSR_AVATAR[c.id][c.ascension]
  IN AddAll(DEFAULT_PROPS_HSR,
            [BaseHP |-> promotion.HPBase + promotion.HPAdd * (c.level - 1),
             BaseAttack |-> promotion.AttackBase + promotion.AttackAdd * (c.level - 1),
             BaseDefence |-> promotion.DefenceBase + promotion.DefenceAdd * (c.level - 1),
             BaseSpeed |-> promotion.SpeedBase,
             CriticalChance |-> promotion.CriticalChance,
             CriticalDamage |-> promotion.CriticalDamage])

\* LayerGenerator.character (HSR).
character_hsr(c) ==
  LET promotion == HSR_AVATAR[c.id][c.ascension]
  IN AddAll(DEFAULT_PROPS_HSR,
            [BaseHP |-> promotion.HPBase + promotion.HPAdd * (c.level - 1),
             BaseAttack |-> promotion.AttackBase + promotion.AttackAdd * (c.level - 1),
             BaseDefence |-> promotion.DefenceBase + promotion.DefenceAdd * (c.level - 1),
             BaseSpeed |-> promotion.SpeedBase,
             CriticalChance |-> promotion.CriticalChance,
             CriticalDamage |-> promotion.CriticalDamage,
             SPRatio |-> TEN_THOUSAND])

\* The traces that the tree table holds, in the character's order.
RECURSIVE TreeProps(_)
TreeProps(traces) ==
  IF traces = <<>> THEN <<>>
  ELSE LET front == TreeProps(SubSeq(traces, 1, Len(traces) - 1))
           trace == traces[Len(traces)]
       IN IF trace.id \in DOMAIN HSR_TREE
            THEN Append(front, HSR_TREE[trace.id][trace.level].props)
            ELSE front

\* LayerGenerator.skill_tree.
skill_tree(c) == AddFragments(DEFAULT_PROPS_HSR, TreeProps(c.traces), 1)

\* LayerGenerator.light_cone.
light_cone(lc) ==
  LET promotion == HSR_EQUIPMENT[lc.id][lc.ascension]
  IN AddAll(DEFAULT_PROPS_HSR,
            [BaseHP |-> promotion.BaseHP + promotion.HPAdd * (lc.level - 1),
             BaseAttack |-> promotion.BaseAttack + promotion.AttackAdd * (lc.level - 1),
             BaseDefence |-> promotion.BaseDefence + promotion.DefenceAdd * (lc.level - 1)])

\* LayerGenerator.light_cone_skill.
light_cone_skill(lc) ==
  IF lc.id \in DOMAIN HSR_EQUIPMENT_SKILL
    THEN AddAll(DEFAULT_PROPS_HSR, HSR_EQUIPMENT_SKILL[lc.id][lc.superimpose].props)
    ELSE [props |-> DEFAULT_PROPS_HSR, raised |-> FALSE]

\* The stats of the relics in the order the loops visit them, each as a dict
\* of one key.
RECURSIVE RelicStatSeq(_)
RelicStatSeq(rs) ==
  IF rs = <<>> THEN <<>>
  ELSE RelicStatSeq(SubSeq(rs, 1, Len(rs) - 1))
         \o [i \in 1..Len(rs[Len(rs)].stats) |->
               [k \in {rs[Len(rs)].stats[i].type} |-> rs[Len(rs)].stats[i].value]]

\* LayerGenerator.relics.
relics(rs) == AddFragments(DEFAULT_PROPS_HSR, RelicStatSeq(rs), 1)

\* The properties of PropLayer (HSR) that the compound stats and the
\* energy-regen rate are read from.
PropLayerDerived(props) ==
  [hp |-> props["BaseHP"] * (TEN_THOUSAND + props["HPAddedRatio"])
            + props["HPDelta"] * TEN_THOUSAND + props["HPConvert"] * TEN_THOUSAND,
   attack |-> props["BaseAttack"] * (TEN_THOUSAND + props["AttackAddedRatio"])
                + props["AttackDelta"] * TEN_THOUSAND + props["AttackConvert"] * TEN_THOUSAND,
   defence |-> props["BaseDefence"] * (TEN_THOUSAND + props["DefenceAddedRatio"])
                 + props["DefenceDelta"] * TEN_THOUSAND
                 + props["DefenceConvert"] * TEN_THOUSAND,
   speed |-> props["BaseSpeed"] * (TEN_THOUSAND + props["SpeedAddedRatio"])
               + props["SpeedDelta"] * TEN_THOUSAND + props["SpeedConvert"] * TEN_THOUSAND,
   sp_ratio |-> props["SPRatioBase"] + props["SPRatio"] + props["SPRatioConvert"]]

\* update_stats for each dict of frags in turn.
RECURSIVE UpdateAll(_, _, _)
UpdateAll(stats, frags, i) ==
  IF i > Len(frags) THEN stats ELSE UpdateAll(update_stats(stats, frags[i]), frags, i + 1)

\* HSRClient._add_up_character_stats.
_add_up_character_stats(c) ==
  LET base == update_stats(DEFAULT_STATS, HSR_AVATAR[c.id][c.ascension])
      lc == c.light_cone
      cone == IF lc.present THEN update_stats(base, HSR_EQUIPMENT[lc.id][lc.ascension])
                            ELSE base
      skill == IF lc.present /\ lc.id \in DOMAIN HSR_EQUIPMENT_SKILL
                 THEN update_stats(cone, HSR_EQUIPMENT_SKILL[lc.id][lc.superimpose].props)
                 ELSE cone
      worn == UpdateAll(skill, RelicStatSeq(c.relics), 1)
      ps == [i \in 1..Len(c.relics) |-> c.relics[i].set_id]
      sets == ClientRelicSetLoop(worn, HSR_SET_SKILL, ps, SetOrder(ps), 1).props
  IN UpdateAll(sets, TreeProps(c.traces), 1)

\* final_stats of HSRClient._post_process_character, the stats that the
\* claims are about.
FinalStats(chara_stats, level) ==
  "MAX_HP" :> ((chara_stats["BaseHP"] + chara_stats["HPBase"]
                  + chara_stats["HPAdd"] * (level - 1))
                 * (TEN_THOUSAND + chara_stats["HPAddedRatio"])
               + chara_stats["HPDelta"] * TEN_THOUSAND
               + chara_stats["HPConvert"] * TEN_THOUSAND)
  @@ "ATK" :> ((chara_stats["BaseAttack"] + chara_stats["AttackBase"]
                  + chara_stats["AttackAdd"] * (level - 1))
                 * (TEN_THOUSAND + chara_stats["AttackAddedRatio"])
               + chara_stats["AttackDelta"] * TEN_THOUSAND
               + chara_stats["AttackConvert"] * TEN_THOUSAND)
  @@ "DEF" :> ((chara_stats["BaseDefence"] + chara_stats["DefenceBase"]
                  + chara_stats["DefenceAdd"] * (level - 1))
                 * (TEN_THOUSAND + chara_stats["DefenceAddedRatio"])
               + chara_stats["DefenceDelta"] * TEN_THOUSAND
               + chara_stats["DefenceConvert"] * TEN_THOUSAND)
  @@ "SPD" :> ((chara_stats["BaseSpeed"] + chara_stats["SpeedBase"])
                 * (TEN_THOUSAND + chara_stats["SpeedAddedRatio"])
               + chara_stats["SpeedDelta"] * TEN_THOUSAND
               + chara_stats["SpeedConvert"] * TEN_THOUSAND)
  @@ "BASE_HP" :> (chara_stats["BaseHP"] + chara_stats["HPBase"]
                     + chara_stats["HPAdd"] * (level - 1))
  @@ "ENERGY_REGEN_RATE" :> (chara_stats["SPRatioBase"] + chara_stats["SPRatio"]
                               + chara_stats["SPRatioConvert"] + TEN_THOUSAND)

(***************************************************************************)
(* The HSR character machine: a character as parsed from the API response  *)
(* is post-processed by the client, and the layer generators are called on *)
(* it, each layer appended to a PropState that is then summed.             *)
(***************************************************************************)
NoLightCone == [present |-> FALSE, id |-> 0, ascension |-> 0, level |-> 0, superimpose |-> 0]

LightCone(id, ascension, level, superimpose) ==
  [present |-> TRUE, id |-> id, ascension |-> ascension, level |-> level,
   superimpose |-> superimpose]

\* No light cone; one at the character's level 20 and one below it, both
\* with a skill entry; one without a skill entry.
LightConeChoices ==
  {NoLightCone, LightCone(21001, 1, 20, 1), LightCone(21001, 0, 10, 2),
   LightCone(20000, 0, 1, 1)}

RelicChoices ==
  {[set_id |-> 101, stats |-> <<[type |-> "HPDelta", value |-> 70],
                                [type |-> "SPRatioBase", value |-> 1944]>>],
   [set_id |-> 102, stats |-> <<[type |-> "SpeedDelta", value |-> 4],
                                [type |-> "AttackAddedRatio", value |-> 432]>>]}

TraceChoices ==
  {[id |-> 1001201, level |-> 1], [id |-> 1001202, level |-> 1],
   [id |-> 1001001, level |-> 6]}

HsrInit ==
  /\ hChar \in {[id |-> 1001, ascension |-> a, level |-> l, light_cone |-> lc,
                 relics |-> rs, traces |-> ts] :
                  a \in {1}, l \in {1, 20}, lc \in LightConeChoices,
                  rs \in SeqsUpTo(RelicChoices, MaxRelics),
                  ts \in SeqsUpTo(TraceChoices, MaxTraces)}
  /\ hStats = <<>>
  /\ hLayers = <<>>
  /\ hSum = <<>>

\* HSRClient._post_process_character: chara_stats, then final_stats.
PostProcessCharacterHSR ==
  /\ hChar # <<>>
  /\ hStats = <<>>
  /\ LET chara_stats == _add_up_character_stats(hChar)
     IN hStats' = [chara_stats |-> chara_stats,
                   final_stats |-> FinalStats(chara_stats, hChar.level)]
  /\ UNCHANGED <<hChar, hLayers, hSum>>
  /\ HsrFrame

\* The generators called for the character, the light cone's two only when
\* there is one, and prop_state.sum().
CalcCharacterHSR ==
  /\ hChar # <<>>
  /\ hSum = <<>>
  /\ LET ps == [i \in 1..Len(hChar.relics) |-> hChar.relics[i].set_id]
         cone == IF hChar.light_cone.present
                   THEN <<light_cone(hChar.light_cone).props,
                          light_cone_skill(hChar.light_cone).props>>
                   ELSE <<>>
         ls == <<character_hsr(hChar).props, skill_tree(hChar).props>> \o cone
                 \o <<relics(hChar.relics).props, relic_set(HSR_SET_SKILL, ps).props>>
     IN /\ hLayers' = ls
        /\ hSum' = FreshSum("hsr", ls)
  /\ UNCHANGED <<hChar, hStats>>
  /\ HsrFrame

HsrNext == PostProcessCharacterHSR \/ CalcCharacterHSR

(***************************************************************************)
(* The display machine: utils.round_down on a float, and on its own        *)
(* result.  The floats are those of the order machine with two more bits   *)
(* of mantissa and of fraction: whole numbers of units of 1/DisplayUnit,   *)
(* rounded to DisplayBits significant bits, ties to even.                  *)
(***************************************************************************)
DisplayBits == MantissaBits + 2

DisplayUnit == 4 * Unit

\* The float nearest to the exact value num / den (in units), den > 0.
RoundRatio(num, den) ==
  LET a == Abs(num)
      over == BitLength(a \div den) - DisplayBits
      step == den * (IF over > 0 THEN 2 ^ over ELSE 1)
      q == a \div step
      r == a % step
      up == 2 * r > step \/ (2 * r = step /\ q % 2 = 1)
      mag == (IF up THEN q + 1 ELSE q) * (step \div den)
  IN IF num < 0 THEN -mag ELSE mag

\* A mutant of round_down: math.trunc in place of math.floor.
RoundDownTrunc(number, decimal_places) ==
  LET factor == 10 ^ decimal_places
      product == RoundRatio(number * factor, 1)
      whole == IF product < 0 THEN -((-product) \div DisplayUnit)
               ELSE product \div DisplayUnit
  IN RoundRatio(whole * DisplayUnit, factor)

\* round_down: number * factor is a float product, math.floor gives an int,
\* and int / factor is the float nearest to the quotient.
round_down(number, decimal_places) ==
  LET factor == 10 ^ decimal_places
      product == RoundRatio(number * factor, 1)
      whole == product \div DisplayUnit
  IN RoundRatio(whole * DisplayUnit, factor)

\* The floats of the machine: the whole numbers of units that fit the mantissa.
DisplayNumbers == {n \in (-MaxNumber)..MaxNumber : RoundRatio(n, 1) = n}

DisplayInit ==
  /\ dNumber \in DisplayNumbers
  /\ dPlaces \in 0..MaxPlaces
  /\ dOut = <<>>
  /\ dAgain = <<>>

\* round_down(number, decimal_places)
RunRoundDown ==
  /\ dOut = <<>>
  /\ dOut' = <<round_down(dNumber, dPlaces)>>
  /\ UNCHANGED <<dNumber, dPlaces, dAgain>>
  /\ DisplayFrame

\* round_down(result, decimal_places) on the result of the first call
RunRoundDownAgain ==
  /\ dOut # <<>>
  /\ dAgain = <<>>
  /\ dAgain' = <<round_down(dOut[1], dPlaces)>>
  /\ UNCHANGED <<dNumber, dPlaces, dOut>>
  /\ DisplayFrame

DisplayNext == RunRoundDown \/ RunRoundDownAgain

(***************************************************************************)
(* The growth machine: one base prop of a ZZZ agent, computed by the        *)
(* layers (LayerGenerator.character and core, then PropState.sum) and by    *)
(* the client (_get_agent_base_stats).  The table values and the level are  *)
(* Python ints; a true division gives a float, and so does every operation  *)
(* on a float.  Floats are whole numbers of units of 1/FineUnit with        *)
(* GrowthBits significant bits, rounded to nearest, ties to even: enough    *)
(* bits for every quotient of the table values below to keep its whole      *)
(* part, as Python's 53 bits do for the game's values.                      *)
(***************************************************************************)
GrowthBits == MantissaBits + 6

FineUnit == 2 ^ 15

\* GrowthProps values are multiples of this many ten-thousandths here.
GrowthStep == 200

\* The float nearest to the exact value num / den (in units), den > 0,
\* num >= 0.
FloatOf(num, den) ==
  LET over == BitLength(num \div den) - GrowthBits
      step == den * (IF over > 0 THEN 2 ^ over ELSE 1)
      q == num \div step
      r == num % step
      up == 2 * r > step \/ (2 * r = step /\ q % 2 = 1)
  IN (IF up THEN q + 1 ELSE q) * (step \div den)

\* A mutant of computed: the product is formed before the division, as the
\* client does.
ComputedProductFirst(base, growth_prop, level, promotion) ==
  LET growth == FloatOf(growth_prop * (level - 1) * FineUnit, TEN_THOUSAND)
  IN FloatOf(FloatOf(base * FineUnit + growth, 1) + promotion * FineUnit, 1)

\* LayerGenerator.character's `computed` for one prop id:
\* growth = (GrowthProps / 10000) * (a.level - 1), a quotient and a product
\* of floats; computed = base + growth + promotion.
computed(base, growth_prop, level, promotion) ==
  LET ratio == FloatOf(growth_prop * FineUnit, TEN_THOUSAND)
      growth == FloatOf(ratio * (level - 1), 1)
  IN FloatOf(FloatOf(base * FineUnit + growth, 1) + promotion * FineUnit, 1)

\* PropState.sum over the character layer and the core layer for the prop's
\* key: math.floor of each layer's value, added as ints.
LayeredTotal(base, growth_prop, level, promotion, core) ==
  computed(base, growth_prop, level, promotion) \div FineUnit + core

\* _get_agent_base_stats's base_total_val for one prop id:
\* growth_val = (GrowthProps * (level - 1)) / 10000, the float quotient of
\* two ints; prop_val + math.floor(growth_val) + promotion_val + core.
base_total_val(prop_val, growth_prop, level, promotion_val, core_enhancement_val) ==
  LET growth_val == FloatOf(growth_prop * (level - 1) * FineUnit, TEN_THOUSAND)
  IN prop_val + growth_val \div FineUnit + promotion_val + core_enhancement_val

GrowthInit ==
  /\ bProp \in [base : 0..MaxBase, growth : {GrowthStep * k : k \in 0..MaxGrowth},
                level : 1..MaxGrowthLevel, promotion : 0..1, core : 0..1]
  /\ bLayered = <<>>
  /\ bDirect = <<>>

\* prop_state.add(generator.character(a)); prop_state.add(generator.core(a));
\* prop_state.sum()
SumCharacterAndCore ==
  /\ bLayered = <<>>
  /\ bLayered' = <<LayeredTotal(bProp.base, bProp.growth, bProp.level, bProp.promotion,
                                bProp.core)>>
  /\ UNCHANGED <<bProp, bDirect>>
  /\ GrowthFrame

\* self._get_agent_base_stats(agent)
GetAgentBaseStats ==
  /\ bDirect = <<>>
  /\ bDirect' = <<base_total_val(bProp.base, bProp.growth, bProp.level, bProp.promotion,
                                 bProp.core)>>
  /\ UNCHANGED <<bProp, bLayered>>
  /\ GrowthFrame

GrowthNext == SumCharacterAndCore \/ GetAgentBaseStats

(***************************************************************************)
(* The ZZZ agent: the static tables, ZZZClient._post_process_agent and the *)
(* layers LayerGenerator builds for the same agent.  The client's stats    *)
(* are whole numbers (Python ints).                                        *)
(***************************************************************************)
\* d.get(key, default)
Get(d, key, default) == IF key \in DOMAIN d THEN d[key] ELSE default

\* math.floor(a / b) and math.ceil(a / b) for whole a and b > 0.
FloorDiv(a, b) == a \div b

CeilDiv(a, b) == -((-a) \div b)

\* str(prop_id).endswith("01"), "02", "03"
EndsWith(id, d) == id >= 10 /\ id % 100 = d

\* The values of enums.StatType.
STAT_TYPES ==
  {11101, 11102, 11103, 12101, 12102, 12103, 12201, 12202, 12301, 12302,
   13101, 13102, 13103, 20101, 20103, 21101, 21103, 23101, 23103, 23201,
   23203, 30501, 30502, 30503, 31201, 31203, 31401, 31402, 31403, 31501,
   31503, 31601, 31603, 31701, 31703, 31801, 31803, 31901, 31903, 32001,
   32002, 32003, 32201, 32203}

\* The agent with the DEF-based passive (Ben) and an agent without one.
BEN == 1121

AVATAR_IDS == {1011, BEN}

\* avatars.json: BaseProps, GrowthProps by prop id; PromotionProps and
\* CoreEnhancementProps are lists (Python index i is index i + 1 here).  The
\* lists are shorter than the range of Agent.promotion and of
\* Agent.core_skill_level_num, and their first entries hold no prop id.
AVATARS ==
  [id \in AVATAR_IDS |->
     IF id = BEN
       THEN [BaseProps |-> (11101 :> 728 @@ 12101 :> 111 @@ 13101 :> 59 @@ 20101 :> 500),
             GrowthProps |-> (11101 :> 988920 @@ 12101 :> 73234 @@ 13101 :> 80007),
             PromotionProps |-> << <<>>, (11101 :> 504 @@ 12101 :> 44 @@ 13101 :> 46) >>,
             CoreEnhancementProps |-> << <<>>, (12101 :> 25 @@ 13101 :> 20) >>]
       ELSE [BaseProps |-> (11101 :> 603 @@ 12101 :> 95 @@ 13101 :> 49 @@ 20101 :> 500),
             GrowthProps |-> (11101 :> 818426 @@ 12101 :> 58541 @@ 13101 :> 66882),
             PromotionProps |-> << <<>>, (11101 :> 414 @@ 12101 :> 34 @@ 13101 :> 34) >>,
             CoreEnhancementProps |-> << <<>>, (12101 :> 25 @@ 12201 :> 6) >>]]

\* weapons.json, weapon_level.json["Items"], weapon_star.json["Items"].
WEAPONS ==
  (12001 :> [Rarity |-> 2,
             MainStat |-> [PropertyId |-> 12101, PropertyValue |-> 100],
             SecondaryStat |-> [PropertyId |-> 13102, PropertyValue |-> 1600]]
   @@ 14001 :> [Rarity |-> 4,
                MainStat |-> [PropertyId |-> 12101, PropertyValue |-> 48],
                SecondaryStat |-> [PropertyId |-> 11102, PropertyValue |-> 961]])

WEAPON_LEVEL ==
  << [Level |-> 10, Rarity |-> 2, EnhanceRate |-> 500],
     [Level |-> 60, Rarity |-> 4, EnhanceRate |-> 9330] >>

WEAPON_STAR ==
  << [Rarity |-> 2, BreakLevel |-> 0, StarRate |-> 0, RandRate |-> 0],
     [Rarity |-> 4, BreakLevel |-> 5, StarRate |-> 44610, RandRate |-> 15000] >>

\* equipments.json["Items"], equipment_level.json["Items"]; the Suits table
\* holds both sets.
ITEMS ==
  (31041 :> [Rarity |-> 4, SuitId |-> 31000] @@ 32751 :> [Rarity |-> 4, SuitId |-> 32700])

EQUIPMENT_LEVEL == << [Level |-> 15, Rarity |-> 4, EnhanceRate |-> 33333] >>

SUITS == [id \in ZZZ_SET_IDS |-> [SetBonusProps |-> ZzzSetBonusProps(id)]]

\* next((d for d in items if ...), None): the place of the first row among
\* those that match, 0 for None.
FirstMatch(hits) ==
  IF hits = {} THEN 0 ELSE CHOOSE i \in hits : \A j \in hits : i <= j

\* ZZZClient._calc_disc_stats: without a level row the disc is left as it is,
\* its sub stats not multiplied by their roll counts.
_calc_disc_stats(disc) ==
  LET i == FirstMatch({k \in 1..Len(EQUIPMENT_LEVEL) :
                          /\ EQUIPMENT_LEVEL[k].Level = disc.level
                          /\ EQUIPMENT_LEVEL[k].Rarity = disc.rarity_num})
  IN IF i = 0 THEN disc
     ELSE [disc EXCEPT
             !.main_stat.value =
               FloorDiv(disc.main_stat.value * (TEN_THOUSAND + EQUIPMENT_LEVEL[i].EnhanceRate),
                        TEN_THOUSAND),
             !.sub_stats = [j \in 1..Len(disc.sub_stats) |->
                              [disc.sub_stats[j] EXCEPT
                                 !.value = disc.sub_stats[j].value * disc.sub_stats[j].roll_times]]]

\* ZZZClient._post_process_disc; the subscript by the disc id raises
\* KeyError when the Items table lacks it.
_post_process_disc(disc) ==
  IF disc.id \notin DOMAIN ITEMS
    THEN [raised |-> TRUE, disc |-> disc]
    ELSE [raised |-> FALSE,
          disc |-> _calc_disc_stats([disc EXCEPT !.rarity_num = ITEMS[disc.id].Rarity,
                                                 !.set_id = ITEMS[disc.id].SuitId])]

\* A mutant of _calc_engine_stats: the star rate is left out of the main stat.
CalcEngineStatsNoStar(engine) ==
  LET i == FirstMatch({k \in 1..Len(WEAPON_LEVEL) :
                          /\ WEAPON_LEVEL[k].Level = engine.level
                          /\ WEAPON_LEVEL[k].Rarity = engine.rarity_num})
      j == FirstMatch({k \in 1..Len(WEAPON_STAR) :
                          /\ WEAPON_STAR[k].Rarity = engine.rarity_num
                          /\ WEAPON_STAR[k].BreakLevel = engine.modification})
  IN IF i = 0 \/ j = 0 THEN engine
     ELSE [engine EXCEPT
             !.main_stat.value =
               FloorDiv(engine.main_stat.value * (TEN_THOUSAND + WEAPON_LEVEL[i].EnhanceRate),
                        TEN_THOUSAND),
             !.sub_stat.value =
               FloorDiv(engine.sub_stat.value * (TEN_THOUSAND + WEAPON_STAR[j].RandRate),
                        TEN_THOUSAND)]

\* A mutant of _calc_engine_stats: the main stat is written as soon as the
\* level row is found, before the star row is looked up.
CalcEngineMainFirst(engine) ==
  LET i == FirstMatch({k \in 1..Len(WEAPON_LEVEL) :
                          /\ WEAPON_LEVEL[k].Level = engine.level
                          /\ WEAPON_LEVEL[k].Rarity = engine.rarity_num})
      j == FirstMatch({k \in 1..Len(WEAPON_STAR) :
                          /\ WEAPON_STAR[k].Rarity = engine.rarity_num
                          /\ WEAPON_STAR[k].BreakLevel = engine.modification})
      upgraded == [engine EXCEPT
                     !.main_stat.value =
                       FloorDiv(engine.main_stat.value *
                                  (TEN_THOUSAND + WEAPON_LEVEL[i].EnhanceRate),
                                TEN_THOUSAND)]
  IN IF i = 0 THEN engine
     ELSE IF j = 0 THEN upgraded
     ELSE [engine EXCEPT
             !.main_stat.value =
               FloorDiv(engine.main_stat.value *
                          (TEN_THOUSAND + WEAPON_LEVEL[i].EnhanceRate + WEAPON_STAR[j].StarRate),
                        TEN_THOUSAND),
             !.sub_stat.value =
               FloorDiv(engine.sub_stat.value * (TEN_THOUSAND + WEAPON_STAR[j].RandRate),
                        TEN_THOUSAND)]

\* ZZZClient._calc_engine_stats: without the level row or the star row the
\* engine keeps the raw values of the weapons table.
_calc_engine_stats(engine) ==
  LET i == FirstMatch({k \in 1..Len(WEAPON_LEVEL) :
                          /\ WEAPON_LEVEL[k].Level = engine.level
                          /\ WEAPON_LEVEL[k].Rarity = engine.rarity_num})
      j == FirstMatch({k \in 1..Len(WEAPON_STAR) :
                          /\ WEAPON_STAR[k].Rarity = engine.rarity_num
                          /\ WEAPON_STAR[k].BreakLevel = engine.modification})
  IN IF i = 0 \/ j = 0 THEN engine
     ELSE [engine EXCEPT
             !.main_stat.value =
               FloorDiv(engine.main_stat.value *
                          (TEN_THOUSAND + WEAPON_LEVEL[i].EnhanceRate + WEAPON_STAR[j].StarRate),
                        TEN_THOUSAND),
             !.sub_stat.value =
               FloorDiv(engine.sub_stat.value * (TEN_THOUSAND + WEAPON_STAR[j].RandRate),
                        TEN_THOUSAND)]

\* ZZZClient._post_process_engine: the main and the sub stat are read from
\* the weapons table, then upgraded.
_post_process_engine(engine) ==
  IF engine.id \notin DOMAIN WEAPONS
    THEN [raised |-> TRUE, engine |-> engine]
    ELSE LET data == WEAPONS[engine.id]
         IN [raised |-> FALSE,
             engine |-> _calc_engine_stats(
               [engine EXCEPT
                  !.rarity_num = data.Rarity,
                  !.main_stat = [type |-> data.MainStat.PropertyId,
                                 value |-> data.MainStat.PropertyValue],
                  !.sub_stat = [type |-> data.SecondaryStat.PropertyId,
                                value |-> data.SecondaryStat.PropertyValue]])]

\* The result records of a client step that may raise.
Ok(val) == [raised |-> FALSE, err |-> "", val |-> val]

Fail(err, val) == [raised |-> TRUE, err |-> err, val |-> val]

\* base_total_val of ZZZClient._get_agent_base_stats for one base prop id.
BaseTotalVal(data, agent, pid) ==
  data.BaseProps[pid]
    + FloorDiv(Get(data.GrowthProps, pid, 0) * (agent.level - 1), TEN_THOUSAND)
    + Get(data.PromotionProps[agent.promotion], pid, 0)
    + Get(data.CoreEnhancementProps[agent.core_skill_level_num + 1], pid, 0)

\* ZZZClient._get_agent_base_stats: the two list subscripts raise IndexError
\* when the list has no such entry (the loop body runs if BaseProps holds a
\* prop id); an entry without the prop id counts 0.
_get_agent_base_stats(agent) ==
  IF agent.id \notin DOMAIN AVATARS THEN Fail("KeyError", <<>>)
  ELSE LET data == AVATARS[agent.id]
       IN IF DOMAIN data.BaseProps = {} THEN Ok(<<>>)
          ELSE IF agent.promotion > Len(data.PromotionProps) THEN Fail("IndexError", <<>>)
          ELSE IF agent.core_skill_level_num + 1 > Len(data.CoreEnhancementProps)
            THEN Fail("IndexError", <<>>)
          ELSE Ok([pid \in DOMAIN data.BaseProps |-> BaseTotalVal(data, agent, pid)])

\* ZZZClient._add_engine_stats.
_add_engine_stats(stats, engine) ==
  DefaultDictAdd(DefaultDictAdd(stats, engine.main_stat.type, engine.main_stat.value),
                 engine.sub_stat.type, engine.sub_stat.value)

\* The stats of the discs in the order the loops visit them: each disc's main
\* stat, then its sub stats.
RECURSIVE DiscStatSeq(_)
DiscStatSeq(ds) ==
  IF ds = <<>> THEN <<>>
  ELSE <<Head(ds).main_stat>> \o Head(ds).sub_stats \o DiscStatSeq(Tail(ds))

RECURSIVE AddStatSeq(_, _)
AddStatSeq(stats, seq) ==
  IF seq = <<>> THEN stats
  ELSE AddStatSeq(DefaultDictAdd(stats, Head(seq).type, Head(seq).value), Tail(seq))

\* ZZZClient._add_disc_stats.
_add_disc_stats(stats, ds) == AddStatSeq(stats, DiscStatSeq(ds))

\* ZZZClient._calculate_final_stats: the base stats ("01"), then base x
\* (1 + ratio / 10000) for each "02" stat, rounded up for Max HP (11101) and
\* down for the others, then the flat stats ("03"); a flat stat whose base
\* id is not in the table raises KeyError.
_calculate_final_stats(raw_stats) ==
  LET baseKeys == {s \in STAT_TYPES : EndsWith(s, 1)}
                    \cup {p \in DOMAIN raw_stats : EndsWith(p, 1)}
      base == [p \in baseKeys |-> Get(raw_stats, p, 0)]
      pctKeys == baseKeys \cup {p - 1 : p \in {q \in DOMAIN raw_stats : EndsWith(q, 2)}}
      pct == [p \in pctKeys |->
                IF p + 1 \in DOMAIN raw_stats
                  THEN LET stat == Get(base, p, 0) * (TEN_THOUSAND + raw_stats[p + 1])
                       IN IF p = 11101 THEN CeilDiv(stat, TEN_THOUSAND)
                                       ELSE FloorDiv(stat, TEN_THOUSAND)
                  ELSE base[p]]
      flat == {p \in DOMAIN raw_stats : EndsWith(p, 3)}
  IN IF \E p \in flat : p - 2 \notin pctKeys THEN Fail("KeyError", pct)
     ELSE Ok([p \in pctKeys |-> pct[p] + Get(raw_stats, p + 2, 0)])

\* The scalings of Ben's passive by core skill level, in percent
\* (0.4, 0.46, 0.52, 0.6, 0.66, 0.72, 0.8).
BEN_SCALINGS == <<40, 46, 52, 60, 66, 72, 80>>

\* ZZZClient._apply_special_agent_passives: the bonus is added to the stat
\* the code names atk_stat_id, which is 11101.
_apply_special_agent_passives(final_stats, agent) ==
  IF agent.id = BEN /\ 13101 \in DOMAIN final_stats /\ 11101 \in DOMAIN final_stats
    THEN IF agent.core_skill_level_num + 1 > Len(BEN_SCALINGS)
           THEN Fail("IndexError", final_stats)
           ELSE Ok([final_stats EXCEPT
                      ![11101] = @ + FloorDiv(final_stats[13101] *
                                                BEN_SCALINGS[agent.core_skill_level_num + 1], 100)])
    ELSE Ok(final_stats)

\* ZZZClient._assign_final_stats_to_agent: enums.StatType(prop_id) raises
\* ValueError for an id that is no StatType; the ids of the enum come first
\* in the table and are assigned before that.
_assign_final_stats_to_agent(final_stats, agent) ==
  IF DOMAIN final_stats \subseteq STAT_TYPES
    THEN Ok([agent EXCEPT !.stats = final_stats])
    ELSE Fail("ValueError",
              [agent EXCEPT !.stats = [p \in DOMAIN final_stats \cap STAT_TYPES |->
                                         final_stats[p]]])

\* A mutant of RawStats: the engine's stats are added without the test for
\* None, which raises AttributeError for an agent that has no engine.
RawStatsNoGuard(agent) ==
  LET base == _get_agent_base_stats(agent)
  IN IF base.raised THEN base
     ELSE IF ~agent.w_engine.present THEN Fail("AttributeError", <<>>)
     ELSE LET withDiscs == _add_disc_stats(_add_engine_stats(base.val, agent.w_engine),
                                           agent.discs)
          IN Ok(_add_disc_set_bonus_stats(withDiscs, SUITS,
                                          [i \in 1..Len(agent.discs) |-> agent.discs[i].set_id]))

\* Steps 1 to 4 of ZZZClient._calc_agent_stats: the raw stats.
RawStats(agent) ==
  LET base == _get_agent_base_stats(agent)
  IN IF base.raised THEN base
     ELSE LET withEngine == IF agent.w_engine.present
                              THEN _add_engine_stats(base.val, agent.w_engine)
                              ELSE base.val
              withDiscs == _add_disc_stats(withEngine, agent.discs)
          IN Ok(_add_disc_set_bonus_stats(withDiscs, SUITS,
                                          [i \in 1..Len(agent.discs) |-> agent.discs[i].set_id]))

\* ZZZClient._calc_agent_stats.  raw and final are the locals raw_stats and
\* final_stats (before the passives) of the call.
_calc_agent_stats(agent) ==
  LET raw == RawStats(agent)
  IN IF raw.raised THEN [raised |-> TRUE, err |-> raw.err, agent |-> agent,
                         raw |-> <<>>, final |-> <<>>]
     ELSE LET final == _calculate_final_stats(raw.val)
          IN IF final.raised THEN [raised |-> TRUE, err |-> final.err, agent |-> agent,
                                   raw |-> raw.val, final |-> <<>>]
             ELSE LET passive == _apply_special_agent_passives(final.val, agent)
                  IN IF passive.raised
                       THEN [raised |-> TRUE, err |-> passive.err, agent |-> agent,
                             raw |-> raw.val, final |-> final.val]
                       ELSE LET assigned == _assign_final_stats_to_agent(passive.val, agent)
                            IN [raised |-> assigned.raised, err |-> assigned.err,
                                agent |-> assigned.val, raw |-> raw.val, final |-> final.val]

\* for disc in agent.discs: self._post_process_disc(disc); the discs before
\* the one that raises keep their new values.
RECURSIVE PostProcessDiscs(_, _)
PostProcessDiscs(ds, i) ==
  IF i > Len(ds) THEN Ok(ds)
  ELSE LET r == _post_process_disc(ds[i])
       IN IF r.raised THEN Fail("KeyError", ds)
          ELSE PostProcessDiscs([ds EXCEPT ![i] = r.disc], i + 1)

\* ZZZClient._post_process_agent: the discs, the engine if there is one,
\* then the stats.
_post_process_agent(agent) ==
  IF agent.id \notin DOMAIN AVATARS
    THEN [raised |-> TRUE, err |-> "KeyError", agent |-> agent, raw |-> <<>>, final |-> <<>>]
  ELSE LET ds == PostProcessDiscs(agent.discs, 1)
           a1 == [agent EXCEPT !.discs = ds.val]
       IN IF ds.raised
            THEN [raised |-> TRUE, err |-> ds.err, agent |-> a1, raw |-> <<>>, final |-> <<>>]
          ELSE LET en == IF agent.w_engine.present
                           THEN _post_process_engine(agent.w_engine)
                           ELSE [raised |-> FALSE, engine |-> agent.w_engine]
                   a2 == [a1 EXCEPT !.w_engine = en.engine]
               IN IF en.raised
                    THEN [raised |-> TRUE, err |-> "KeyError", agent |-> a2,
                          raw |-> <<>>, final |-> <<>>]
                    ELSE _calc_agent_stats(a2)

\* The result records of a LayerGenerator call.
Layer(props) == [raised |-> FALSE, err |-> "", props |-> props]

LayerFail(err) == [raised |-> TRUE, err |-> err, props |-> <<>>]

\* for prop_id, value in vals.items(): layer.add(PROP_ID_TO_NAME[int(prop_id)], value)
\* on a new layer; an id outside PROP_ID_TO_NAME raises KeyError.
AddById(vals) ==
  IF \E pid \in DOMAIN vals : pid \notin PROP_IDS THEN LayerFail("KeyError")
  ELSE LET r == AddAll(DEFAULT_PROPS_ZZZ,
                       [n \in {PROP_ID_TO_NAME[pid] : pid \in DOMAIN vals} |->
                          vals[CHOOSE pid \in DOMAIN vals : PROP_ID_TO_NAME[pid] = n]])
       IN IF r.raised THEN LayerFail("ValueError") ELSE Layer(r.props)

\* try: excel["PromotionProps"][a.promotion - 1][prop_id]
\* except (IndexError, KeyError): 0
PromotionOrZero(excel, a, pid) ==
  IF a.promotion <= Len(excel.PromotionProps) /\ pid \in DOMAIN excel.PromotionProps[a.promotion]
    THEN excel.PromotionProps[a.promotion][pid]
    ELSE 0

\* LayerGenerator.character: base + growth + promotion per base prop id, the
\* growth term not rounded.
character(a) ==
  IF a.id \notin DOMAIN AVATARS THEN LayerFail("KeyError")
  ELSE LET excel == AVATARS[a.id]
       IN AddById([pid \in DOMAIN excel.BaseProps |->
                     Fix(excel.BaseProps[pid])
                       + Get(excel.GrowthProps, pid, 0) * (a.level - 1)
                       + Fix(PromotionOrZero(excel, a, pid))])

\* LayerGenerator.core: the subscript by the core skill level raises
\* IndexError when the list has no such entry.
core(a) ==
  IF a.id \notin DOMAIN AVATARS THEN LayerFail("KeyError")
  ELSE LET excel == AVATARS[a.id]
       IN IF a.core_skill_level_num + 1 > Len(excel.CoreEnhancementProps)
            THEN LayerFail("IndexError")
            ELSE LET props == excel.CoreEnhancementProps[a.core_skill_level_num + 1]
                 IN AddById([pid \in DOMAIN props |-> Fix(props[pid])])

\* layer.add(PROP_ID_TO_NAME[stat.type.value], stat.value) for each stat of
\* the list in turn.
RECURSIVE AddStatsToLayer(_, _)
AddStatsToLayer(props, seq) ==
  IF seq = <<>> THEN Layer(props)
  ELSE IF Head(seq).type \notin PROP_IDS THEN LayerFail("KeyError")
  ELSE LET r == AddTo(props, PROP_ID_TO_NAME[Head(seq).type], Fix(Head(seq).value))
       IN IF r.raised THEN LayerFail("ValueError") ELSE AddStatsToLayer(r.props, Tail(seq))

\* LayerGenerator.weapon.
weapon(w) == AddStatsToLayer(DEFAULT_PROPS_ZZZ, <<w.main_stat, w.sub_stat>>)

\* LayerGenerator.discs.
discs(ds) == AddStatsToLayer(DEFAULT_PROPS_ZZZ, DiscStatSeq(ds))

\* The whole number a fixed-point value of a summed layer stands for.
Whole(v) == v \div TEN_THOUSAND

\* PropLayer.max_hp, PropLayer.atk and PropLayer.defense, read on the result
\* of PropState.sum(), whose values are whole numbers; the results are
\* fixed-point values.
max_hp(props) ==
  Fix(Whole(props["HpMax_Base"])
        + CeilDiv(Whole(props["HpMax_Base"]) * Whole(props["HpMax_Ratio"]), TEN_THOUSAND)
        + Whole(props["HpMax_Delta"]))

atk(props) ==
  Whole(props["Atk_Base"]) * (TEN_THOUSAND + Whole(props["Atk_Ratio"])) + props["Atk_Delta"]

defense(props) ==
  Whole(props["Def_Base"]) * (TEN_THOUSAND + Whole(props["Def_Ratio"])) + props["Def_Delta"]

\* LayerGenerator.corrections.  prop_sum is the sum of the layers the state
\* holds when the call is made; after the rule for agent 1121 the code reads
\* a.specialty, which raises AttributeError on an object without that
\* attribute (models.zzz.character.Agent declares none).
corrections(a, prop_state) ==
  LET prop_sum == FreshSum("zzz", prop_state)
      enh == a.core_skill_level_num
      ben == IF a.id = BEN
               THEN IF enh + 1 > Len(BEN_SCALINGS) THEN LayerFail("IndexError")
                    ELSE Layer(AddTo(DEFAULT_PROPS_ZZZ, "Atk_Delta",
                                     Fix(FloorDiv(Whole(defense(prop_sum)) * BEN_SCALINGS[enh + 1],
                                                  100))).props)
               ELSE Layer(DEFAULT_PROPS_ZZZ)
  IN IF ben.raised THEN ben
     ELSE IF "specialty" \notin DOMAIN a THEN LayerFail("AttributeError")
     ELSE IF a.specialty = "Rupture"
       THEN Layer(AddTo(AddTo(ben.props, "SkipDefAtk_Delta",
                              Fix(FloorDiv(Whole(atk(prop_sum)) * 3, 10))).props,
                        "SkipDefAtk_Delta",
                        Fix(FloorDiv(Whole(max_hp(prop_sum)), 10))).props)
       ELSE ben

(***************************************************************************)
(* The agent machine: an agent as parsed from the API response is           *)
(* post-processed by the client; the layer generators are then called on   *)
(* it in the order of the client's steps, each layer appended to a         *)
(* PropState, the corrections last.                                        *)
(***************************************************************************)
NoEngine ==
  [present |-> FALSE, id |-> 0, level |-> 0, modification |-> 0, rarity_num |-> 0,
   main_stat |-> [type |-> 0, value |-> 0], sub_stat |-> [type |-> 0, value |-> 0]]

Engine(id, level, modification) ==
  [NoEngine EXCEPT !.present = TRUE, !.id = id, !.level = level,
                   !.modification = modification]

\* No engine; engines whose rows exist; an engine without a star row
\* (modification 4) and one without a level row (level 55).
EngineChoices ==
  {NoEngine, Engine(12001, 10, 0), Engine(14001, 60, 5), Engine(14001, 60, 4),
   Engine(14001, 55, 5)}

\* A disc with a level row and one without (level 14).
DiscChoices ==
  {[id |-> 31041, level |-> 15, rarity_num |-> 0, set_id |-> 0,
    main_stat |-> [type |-> 13103, value |-> 46, roll_times |-> 0],
    sub_stats |-> <<[type |-> 12102, value |-> 300, roll_times |-> 2]>>],
   [id |-> 32751, level |-> 14, rarity_num |-> 0, set_id |-> 0,
    main_stat |-> [type |-> 11102, value |-> 750, roll_times |-> 0],
    sub_stats |-> <<[type |-> 13103, value |-> 15, roll_times |-> 3]>>]}

Levels == {1, 60}

AgentInit ==
  /\ zAgent \in {[id |-> i, level |-> l, promotion |-> p, core_skill_level_num |-> c,
                 discs |-> ds, w_engine |-> e, stats |-> <<>>] :
                  i \in AVATAR_IDS, l \in Levels, p \in 1..MaxPromotion, c \in 0..MaxCore,
                  ds \in SeqsUpTo(DiscChoices, MaxDiscs), e \in EngineChoices}
  /\ agentPc = "new"
  /\ agentErr = ""
  /\ agentLocals = [raw |-> <<>>, final |-> <<>>]
  /\ propState = <<>>
  /\ calcPc = "character"
  /\ calcErr = ""
  /\ calcLocals = <<>>

PostProcessAgent ==
  /\ zAgent # <<>>
  /\ agentPc = "new"
  /\ LET r == _post_process_agent(zAgent)
     IN /\ zAgent' = r.agent
        /\ agentPc' = IF r.raised THEN "raised" ELSE "done"
        /\ agentErr' = r.err
        /\ agentLocals' = [raw |-> r.raw, final |-> r.final]
  /\ UNCHANGED <<propState, calcPc, calcErr, calcLocals>>
  /\ AgentFrame

\* prop_state.add(layer) for the layer a generator returned, or the
\* exception it raised.
CalcStep(r, next) ==
  /\ propState' = IF r.raised THEN propState ELSE Append(propState, r.props)
  /\ calcPc' = IF r.raised THEN "raised" ELSE next
  /\ calcErr' = r.err
  /\ UNCHANGED <<zAgent, agentPc, agentErr, agentLocals>>
  /\ AgentFrame

GenCharacter ==
  /\ agentPc # "new"
  /\ calcPc = "character"
  /\ CalcStep(character(zAgent), "core")
  /\ UNCHANGED calcLocals

GenCore ==
  /\ calcPc = "core"
  /\ CalcStep(core(zAgent), "weapon")
  /\ UNCHANGED calcLocals

\* The weapon layer exists only for an agent that has an engine.
GenWeapon ==
  /\ calcPc = "weapon"
  /\ zAgent.w_engine.present
  /\ CalcStep(weapon(zAgent.w_engine), "discs")
  /\ UNCHANGED calcLocals

GenDiscs ==
  /\ calcPc = "discs" \/ (calcPc = "weapon" /\ ~zAgent.w_engine.present)
  /\ CalcStep(discs(zAgent.discs), "disc_sets")
  /\ UNCHANGED calcLocals

GenDiscSets ==
  /\ calcPc = "disc_sets"
  /\ LET r == disc_sets(SUITS, [i \in 1..Len(zAgent.discs) |-> zAgent.discs[i].set_id])
     IN CalcStep(IF r.raised THEN LayerFail("KeyError") ELSE Layer(r.props), "corrections")
  /\ UNCHANGED calcLocals

GenCorrections ==
  /\ calcPc = "corrections"
  /\ calcLocals' = FreshSum("zzz", propState)
  /\ CalcStep(corrections(zAgent, propState), "done")

AgentNext ==
  \/ PostProcessAgent
  \/ GenCharacter
  \/ GenCore
  \/ GenWeapon
  \/ GenDiscs
  \/ GenDiscSets
  \/ GenCorrections

(***************************************************************************)
(* The rounding machine: Max HP and ATK are given the same base, ratio and *)
(* flat value; the client's _calculate_final_stats and the properties of   *)
(* the summed PropLayer are evaluated on them.                             *)
(***************************************************************************)
RoundBases == {0, 7, 1000, 1003}

RoundDeltas == {0, 330}

RoundInit ==
  /\ rBase \in RoundBases
  /\ rRatio \in {2500 + k : k \in 0..MaxRatioSteps}
  /\ rDelta \in RoundDeltas
  /\ rOut = [client |-> <<>>, calc |-> <<>>]

RunFinalStats ==
  /\ rOut.client = <<>>
  /\ rOut' = [rOut EXCEPT !.client =
                _calculate_final_stats(11101 :> rBase @@ 11102 :> rRatio @@ 11103 :> rDelta
                                         @@ 12101 :> rBase @@ 12102 :> rRatio
                                         @@ 12103 :> rDelta).val]
  /\ UNCHANGED <<rBase, rRatio, rDelta>>
  /\ RoundFrame

RunProps ==
  /\ rOut.calc = <<>>
  /\ LET vals == (11101 :> Fix(rBase) @@ 11102 :> Fix(rRatio) @@ 11103 :> Fix(rDelta)
                    @@ 12101 :> Fix(rBase) @@ 12102 :> Fix(rRatio) @@ 12103 :> Fix(rDelta))
         prop_sum == FreshSum("zzz", <<AddById(vals).props>>)
     IN rOut' = [rOut EXCEPT !.calc = [max_hp |-> max_hp(prop_sum), atk |-> atk(prop_sum)]]
  /\ UNCHANGED <<rBase, rRatio, rDelta>>
  /\ RoundFrame

RoundNext == RunFinalStats \/ RunProps

(***************************************************************************)
(* The batch machine: _post_process_showcase of the three clients on a     *)
(* showcase whose characters may be missing from the character table.      *)
(***************************************************************************)
Clients == {"zzz", "hsr", "gi"}

\* The ids the client's character table (avatars / character_data) holds.
CharacterTable(client) ==
  IF client = "zzz" THEN DOMAIN AVATARS
  ELSE IF client = "hsr" THEN {1001, 1002}
  ELSE {10000002, 10000003}

\* The ids of the characters of a showcase: those of the table and one the
\* table lacks.
BatchIds(client) == CharacterTable(client) \cup {0}

\* for character in characters: self._post_process_character(character).
\* The subscript of the character table by the id raises AssetKeyError, which
\* nothing catches: the loop ends at the first character that raises.
RECURSIVE PostProcessCharacters(_, _, _)
PostProcessCharacters(client, characters, i) ==
  IF i > Len(characters) THEN [raised |-> FALSE, done |-> 1..Len(characters)]
  ELSE IF characters[i] \notin CharacterTable(client)
    THEN [raised |-> TRUE, done |-> 1..(i - 1)]
    ELSE PostProcessCharacters(client, characters, i + 1)

BatchInit ==
  /\ batchClient \in Clients
  /\ batch \in SeqsUpTo(BatchIds(batchClient), MaxBatch)
  /\ batchPc = "new"
  /\ batchDone = {}
  /\ playerDone = FALSE

\* ZZZClient._post_process_showcase: the player, then the agents.
PostProcessShowcaseZZZ ==
  /\ batchClient = "zzz"
  /\ batchPc = "new"
  /\ LET r == PostProcessCharacters("zzz", batch, 1)
     IN /\ batchDone' = r.done
        /\ batchPc' = IF r.raised THEN "raised" ELSE "returned"
  /\ playerDone' = TRUE
  /\ UNCHANGED <<batchClient, batch>>
  /\ BatchFrame

\* HSRClient._post_process_showcase: the characters, then the player.
PostProcessShowcaseHSR ==
  /\ batchClient = "hsr"
  /\ batchPc = "new"
  /\ LET r == PostProcessCharacters("hsr", batch, 1)
     IN /\ batchDone' = r.done
        /\ batchPc' = IF r.raised THEN "raised" ELSE "returned"
        /\ playerDone' = ~r.raised
  /\ UNCHANGED <<batchClient, batch>>
  /\ BatchFrame

\* GenshinClient._post_process_showcase: the player, the player's showcase
\* characters, then the characters.
PostProcessShowcaseGI ==
  /\ batchClient = "gi"
  /\ batchPc = "new"
  /\ LET r == PostProcessCharacters("gi", batch, 1)
     IN /\ batchDone' = r.done
        /\ batchPc' = IF r.raised THEN "raised" ELSE "returned"
  /\ playerDone' = TRUE
  /\ UNCHANGED <<batchClient, batch>>
  /\ BatchFrame

BatchNext == PostProcessShowcaseZZZ \/ PostProcessShowcaseHSR \/ PostProcessShowcaseGI

(***************************************************************************)
(* The trace machine: the eidolons and the traces of an HSR character in   *)
(* HSRClient._post_process_character, and the traces' part of              *)
(* _add_up_character_stats.                                                *)
(***************************************************************************)
\* character_data[id]["RankIDList"]
RANK_ID_LIST == <<100101, 100102, 100103>>

\* eidolon_data[id]["SkillAddLevelList"]: skill id -> levels added.
EIDOLON_DATA ==
  [id \in Range(RANK_ID_LIST) |->
     [SkillAddLevelList |->
        IF id = 100101 THEN <<>>
        ELSE IF id = 100102 THEN (1001002 :> 2 @@ 1001003 :> 1)
        ELSE (1001001 :> 1 @@ 1001002 :> 1)]]

\* skill_tree_data[id]["skillIds"]
SKILL_TREE_DATA ==
  [id \in {1001001, 1001002, 1001003, 1001201} |->
     [skillIds |-> IF id = 1001001 THEN <<1001001>>
                   ELSE IF id = 1001002 THEN <<1001003, 1001002>>
                   ELSE IF id = 1001003 THEN <<1001003>>
                   ELSE <<>>]]

\* A mutant of BoostBy: every listed skill id of the trace adds its levels.
BoostByEverySkill(trace, eidolon_id, skill_ids, k) ==
  LET list == EIDOLON_DATA[eidolon_id].SkillAddLevelList
      hits == {j \in k..Len(skill_ids) : skill_ids[j] \in DOMAIN list}
      RECURSIVE Total(_)
      Total(s) == IF s = {} THEN 0
                  ELSE LET j == CHOOSE x \in s : TRUE
                       IN list[skill_ids[j]] + Total(s \ {j})
  IN IF hits = {} THEN trace
     ELSE [trace EXCEPT !.level = @ + Total(hits), !.boosted = TRUE]

\* for skill_id in skill_ids: the first one the eidolon lists adds its
\* levels, and the loop breaks.
RECURSIVE BoostBy(_, _, _, _)
BoostBy(trace, eidolon_id, skill_ids, k) ==
  LET list == EIDOLON_DATA[eidolon_id].SkillAddLevelList
  IN IF k > Len(skill_ids) THEN trace
     ELSE IF skill_ids[k] \in DOMAIN list
       THEN [trace EXCEPT !.level = @ + list[skill_ids[k]], !.boosted = TRUE]
       ELSE BoostBy(trace, eidolon_id, skill_ids, k + 1)

\* HSRClient._post_process_trace: for eidolon_id in unlocked_eidolon_ids.
RECURSIVE _post_process_trace(_, _)
_post_process_trace(trace, unlocked_eidolon_ids) ==
  IF unlocked_eidolon_ids = <<>> THEN trace
  ELSE LET n == Len(unlocked_eidolon_ids)
           before == _post_process_trace(trace, SubSeq(unlocked_eidolon_ids, 1, n - 1))
       IN BoostBy(before, unlocked_eidolon_ids[n], SKILL_TREE_DATA[trace.id].skillIds, 1)

\* character.eidolons[: character.eidolons_unlocked], as ids
Unlocked(eidolons, eidolons_unlocked) ==
  SubSeq(eidolons, 1, IF eidolons_unlocked < Len(eidolons) THEN eidolons_unlocked
                                                            ELSE Len(eidolons))

\* A mutant of TraceStats: the tree is read at the levels the traces had
\* before the eidolons were applied.
TraceStatsBeforeBoost(parsed, processed) == UpdateAll(DEFAULT_STATS, TreeProps(parsed), 1)

\* The "Add trace stats" loop of _add_up_character_stats, on the traces as
\* _post_process_trace left them.
TraceStats(parsed, processed) == UpdateAll(DEFAULT_STATS, TreeProps(processed), 1)

\* The traces as parsed: the nodes with levels at any of them, the stat node
\* at its one level.
ParsedTraces ==
  {[id |-> i, level |-> l, boosted |-> FALSE] :
     i \in {1001001, 1001002, 1001003}, l \in 1..MaxTraceLevel}
    \cup {[id |-> 1001201, level |-> 1, boosted |-> FALSE]}

TraceInit ==
  /\ tChar \in {[eidolons_unlocked |-> u, eidolons |-> <<>>, traces |-> ts] :
                  u \in 0..Len(RANK_ID_LIST),
                  ts \in SeqsUpTo(ParsedTraces, MaxTraceCount)}
  /\ tStats = <<>>

\* HSRClient._post_process_character: the eidolons are appended, each trace
\* is post-processed with the unlocked ones, then the stats are added up.
PostProcessTraces ==
  /\ tStats = <<>>
  /\ LET eidolons == tChar.eidolons \o RANK_ID_LIST
         unlocked == Unlocked(eidolons, tChar.eidolons_unlocked)
         traces == [i \in 1..Len(tChar.traces) |->
                      _post_process_trace(tChar.traces[i], unlocked)]
     IN /\ tChar' = [tChar EXCEPT !.eidolons = eidolons, !.traces = traces]
        /\ tStats' = <<TraceStats(tChar.traces, traces)>>
  /\ TraceFrame

TraceNext == PostProcessTraces

(***************************************************************************)
(* The schema machine: LayerGenerator.weapon and LayerGenerator.discs for  *)
(* an item whose stats are of any type of the StatType enum.               *)
(***************************************************************************)
SchemaInit ==
  /\ kStat \in [type : STAT_TYPES, value : 1..MaxStatValue]
  /\ kWeapon = <<>>
  /\ kDiscs = <<>>

\* generator.weapon(w) for an engine with this main and sub stat
WeaponLayer ==
  /\ kWeapon = <<>>
  /\ kWeapon' = <<weapon([main_stat |-> kStat, sub_stat |-> kStat])>>
  /\ UNCHANGED <<kStat, kDiscs>>
  /\ SchemaFrame

\* generator.discs(ds) for one disc with this main stat and one such sub stat
DiscsLayer ==
  /\ kDiscs = <<>>
  /\ kDiscs' = <<discs(<<[main_stat |-> kStat, sub_stats |-> <<kStat>>]>>)>>
  /\ UNCHANGED <<kStat, kWeapon>>
  /\ SchemaFrame

SchemaNext == WeaponLayer \/ DiscsLayer

LayerIdle ==
  /\ game = "hsr"
  /\ heap = <<>>
  /\ cur = 0
  /\ layers = <<>>
  /\ raised = FALSE
  /\ lastAdd = ""
  /\ sumOut = 0
  /\ sumIn = <<>>
  /\ nAdds = 0
  /\ sums = 0

SetIdle ==
  /\ setGame = "hsr"
  /\ pieces = <<>>
  /\ setSkill = <<>>
  /\ suits = <<>>
  /\ setOut = <<>>

AgentIdle ==
  /\ zAgent = <<>>
  /\ agentPc = "new"
  /\ agentErr = ""
  /\ agentLocals = <<>>
  /\ propState = <<>>
  /\ calcPc = "character"
  /\ calcErr = ""
  /\ calcLocals = <<>>

RoundIdle ==
  /\ rBase = 0
  /\ rRatio = 0
  /\ rDelta = 0
  /\ rOut = <<>>

BatchIdle ==
  /\ batchClient = "zzz"
  /\ batch = <<>>
  /\ batchPc = "new"
  /\ batchDone = {}
  /\ playerDone = FALSE

ParIdle ==
  /\ parGame = "hsr"
  /\ parHeap = <<>>
  /\ parPc = <<>>
  /\ parLayers = <<>>
  /\ parAlone = <<>>
  /\ parAdds = 0

OrderIdle ==
  /\ oGame = "hsr"
  /\ oValues = <<>>
  /\ oSum = <<>>
  /\ oPermuted = {}
  /\ oMerged = {}

AssetIdle ==
  /\ consts_data = <<>>
  /\ gLoaded = <<>>
  /\ gBatch = <<>>
  /\ gDone = 0
  /\ gConsts = {}

RequestIdle ==
  /\ cacheKind = "none"
  /\ cacheStore = <<>>
  /\ now = 0
  /\ req = <<>>
  /\ call = <<>>
  /\ fetched = <<>>
  /\ nCalls = 0

HsrIdle ==
  /\ hChar = <<>>
  /\ hStats = <<>>
  /\ hLayers = <<>>
  /\ hSum = <<>>

DisplayIdle ==
  /\ dNumber = 0
  /\ dPlaces = 0
  /\ dOut = <<>>
  /\ dAgain = <<>>

GrowthIdle ==
  /\ bProp = <<>>
  /\ bLayered = <<>>
  /\ bDirect = <<>>

SchemaIdle ==
  /\ kStat = <<>>
  /\ kWeapon = <<>>
  /\ kDiscs = <<>>

TraceIdle ==
  /\ tChar = <<>>
  /\ tStats = <<>>

InitLayer == LayerInit /\ SetIdle /\ AgentIdle /\ RoundIdle /\ BatchIdle
    /\ ParIdle /\ OrderIdle /\ AssetIdle /\ RequestIdle /\ HsrIdle
    /\ DisplayIdle /\ GrowthIdle /\ SchemaIdle /\ TraceIdle

SpecLayer == InitLayer /\ [][LayerNext]_vars

InitSets == SetInit /\ LayerIdle /\ AgentIdle /\ RoundIdle /\ BatchIdle
    /\ ParIdle /\ OrderIdle /\ AssetIdle /\ RequestIdle /\ HsrIdle
    /\ DisplayIdle /\ GrowthIdle /\ SchemaIdle /\ TraceIdle

SpecSets == InitSets /\ [][SetNext]_vars

InitAgent == AgentInit /\ LayerIdle /\ SetIdle /\ RoundIdle /\ BatchIdle
    /\ ParIdle /\ OrderIdle /\ AssetIdle /\ RequestIdle /\ HsrIdle
    /\ DisplayIdle /\ GrowthIdle /\ SchemaIdle /\ TraceIdle

SpecAgent == InitAgent /\ [][AgentNext]_vars

InitRound == RoundInit /\ LayerIdle /\ SetIdle /\ AgentIdle /\ BatchIdle
    /\ ParIdle /\ OrderIdle /\ AssetIdle /\ RequestIdle /\ HsrIdle
    /\ DisplayIdle /\ GrowthIdle /\ SchemaIdle /\ TraceIdle

SpecRound == InitRound /\ [][RoundNext]_vars

InitBatch == BatchInit /\ LayerIdle /\ SetIdle /\ AgentIdle /\ RoundIdle
    /\ ParIdle /\ OrderIdle /\ AssetIdle /\ RequestIdle /\ HsrIdle
    /\ DisplayIdle /\ GrowthIdle /\ SchemaIdle /\ TraceIdle

SpecBatch == InitBatch /\ [][BatchNext]_vars

InitPar == ParInit /\ LayerIdle /\ SetIdle /\ AgentIdle /\ RoundIdle
    /\ BatchIdle /\ OrderIdle /\ AssetIdle /\ RequestIdle /\ HsrIdle
    /\ DisplayIdle /\ GrowthIdle /\ SchemaIdle /\ TraceIdle

SpecPar == InitPar /\ [][ParNext]_vars

InitOrder == OrderInit /\ LayerIdle /\ SetIdle /\ AgentIdle /\ RoundIdle
    /\ BatchIdle /\ ParIdle /\ AssetIdle /\ RequestIdle /\ HsrIdle
    /\ DisplayIdle /\ GrowthIdle /\ SchemaIdle /\ TraceIdle

SpecOrder == InitOrder /\ [][OrderNext]_vars

InitAsset == AssetInit /\ LayerIdle /\ SetIdle /\ AgentIdle /\ RoundIdle
    /\ BatchIdle /\ ParIdle /\ OrderIdle /\ RequestIdle /\ HsrIdle
    /\ DisplayIdle /\ GrowthIdle /\ SchemaIdle /\ TraceIdle

SpecAsset == InitAsset /\ [][AssetNext]_vars

InitRequest == RequestInit /\ LayerIdle /\ SetIdle /\ AgentIdle /\ RoundIdle
    /\ BatchIdle /\ ParIdle /\ OrderIdle /\ AssetIdle /\ HsrIdle
    /\ DisplayIdle /\ GrowthIdle /\ SchemaIdle /\ TraceIdle

SpecRequest == InitRequest /\ [][RequestNext]_vars

InitHsr == HsrInit /\ LayerIdle /\ SetIdle /\ AgentIdle /\ RoundIdle
    /\ BatchIdle /\ ParIdle /\ OrderIdle /\ AssetIdle /\ RequestIdle
    /\ DisplayIdle /\ GrowthIdle /\ SchemaIdle /\ TraceIdle

SpecHsr == InitHsr /\ [][HsrNext]_vars

InitDisplay == DisplayInit /\ LayerIdle /\ SetIdle /\ AgentIdle /\ RoundIdle
    /\ BatchIdle /\ ParIdle /\ OrderIdle /\ AssetIdle /\ RequestIdle
    /\ HsrIdle /\ GrowthIdle /\ SchemaIdle /\ TraceIdle

SpecDisplay == InitDisplay /\ [][DisplayNext]_vars

InitGrowth == GrowthInit /\ LayerIdle /\ SetIdle /\ AgentIdle /\ RoundIdle
    /\ BatchIdle /\ ParIdle /\ OrderIdle /\ AssetIdle /\ RequestIdle
    /\ HsrIdle /\ DisplayIdle /\ SchemaIdle /\ TraceIdle

SpecGrowth == InitGrowth /\ [][GrowthNext]_vars

InitSchema == SchemaInit /\ LayerIdle /\ SetIdle /\ AgentIdle /\ RoundIdle
    /\ BatchIdle /\ ParIdle /\ OrderIdle /\ AssetIdle /\ RequestIdle
    /\ HsrIdle /\ DisplayIdle /\ GrowthIdle /\ TraceIdle

SpecSchema == InitSchema /\ [][SchemaNext]_vars

InitTrace == TraceInit /\ LayerIdle /\ SetIdle /\ AgentIdle /\ RoundIdle
    /\ BatchIdle /\ ParIdle /\ OrderIdle /\ AssetIdle /\ RequestIdle
    /\ HsrIdle /\ DisplayIdle /\ GrowthIdle /\ SchemaIdle

SpecTrace == InitTrace /\ [][TraceNext]_vars

(***************************************************************************)
(* Claims about the layer machine (SpecLayer).                             *)
(***************************************************************************)
\* The table with the keys of the game's DefaultStatSet, every value 0.
ZeroTable(g) == [k \in Range(KeyOrder(g)) |-> 0]

\* C1: PropLayer.add with a name that is no key of the game's DEFAULT_PROPS
\* raises ValueError, in both games, whatever the value and whatever adds
\* came before.
C1_UnknownNameRaises ==
  (lastAdd # "" /\ lastAdd \notin Range(KeyOrder(game))) => raised

\* C1 witness: after an add that went through, an add with an undeclared
\* name has raised.
C1_Witness ==
  /\ lastAdd = "Typo_Name"
  /\ raised
  /\ nAdds >= 2
  /\ cur # 0
  /\ heap[cur] # ZeroTable(game)

\* C2: when the PropState holds no layers, or only layers nothing was added
\* to, sum() returns the keys of the DefaultStatSet, each with value 0.
C2_EmptySumIsDefault ==
  (sumOut # 0 /\ \A j \in 1..Len(sumIn) : sumIn[j] = DefaultProps(game))
    => heap[sumOut] = ZeroTable(game)

\* C2 witness: a sum() over two untouched ZZZ layers has returned the zero
\* table.
C2_Witness ==
  /\ game = "zzz"
  /\ sumOut # 0
  /\ Len(sumIn) = 2
  /\ \A j \in 1..Len(sumIn) : sumIn[j] = DefaultProps(game)
  /\ heap[sumOut] = ZeroTable(game)

\* C7: the output of sum() is determined by the contents of the layers it is
\* given: whatever was created, added or summed before, the result is the one
\* the same input gives in a freshly imported module, so two runs on the same
\* input agree.
C7_Deterministic ==
  sumOut # 0 => heap[sumOut] = FreshSum(game, sumIn)

\* C7 witness: a second sum() has run, after adds, on layers that hold
\* contributions.
C7_Witness ==
  /\ sums = 2
  /\ nAdds = MaxAdds
  /\ Len(sumIn) >= 1
  /\ sumIn[1] # DefaultProps(game)
  /\ heap[sumOut] # ZeroTable(game)

(***************************************************************************)
(* Claims about the set bonuses (SpecSets).                                *)
(***************************************************************************)
RECURSIVE SumOver(_, _)
SumOver(S, f) ==
  IF S = {} THEN 0 ELSE LET x == CHOOSE x \in S : TRUE IN f[x] + SumOver(S \ {x}, f)

\* The value an entry of the HSR table gives to a key: 0 when the set, the
\* piece count or the key is not there.
TierValue(table, id, tier, k) ==
  IF id \in DOMAIN table /\ tier \in DOMAIN table[id] /\ k \in DOMAIN table[id][tier].props
    THEN table[id][tier].props[k] ELSE 0

\* What n pieces of a set are to contribute to a key: nothing for n <= 1, the
\* 2-piece bonus for n of 2 or 3, the 2-piece and the 4-piece bonus from 4 on.
HsrSetContribution(table, id, n, k) ==
  IF n <= 1 THEN 0
  ELSE IF n <= 3 THEN TierValue(table, id, 2, k)
  ELSE TierValue(table, id, 2, k) + TierValue(table, id, 4, k)

HsrSetExpected(table, ps) ==
  [k \in Range(HSR_KEY_ORDER) |->
     SumOver(HSR_SET_IDS, [id \in HSR_SET_IDS |-> HsrSetContribution(table, id, Count(ps, id), k)])]

\* C3: in HSR each set contributes by its piece count n: nothing for n = 1,
\* exactly its 2-piece props for n of 2 or 3, its 2-piece and its 4-piece
\* props together for n >= 4, and nothing else; in relic_set and in the
\* client's set block, whenever they return.
C3_SetBonusByCount ==
  setGame = "hsr" =>
    \A impl \in DOMAIN setOut :
      (setOut[impl].done /\ ~setOut[impl].raised)
        => setOut[impl].props = HsrSetExpected(setSkill, pieces)

\* C3 witness: four pieces of set 101 and two of set 102, each in the table
\* with both entries: both implementations returned the 2-piece and 4-piece
\* props of 101 with the 2-piece props of 102.
C3_Witness ==
  /\ setGame = "hsr"
  /\ Count(pieces, 101) = 4 /\ Count(pieces, 102) = 2
  /\ \A id \in HSR_SET_IDS : id \in DOMAIN setSkill /\ DOMAIN setSkill[id] = {2, 4}
  /\ \A impl \in DOMAIN setOut :
       /\ setOut[impl].done /\ ~setOut[impl].raised
       /\ setOut[impl].props["AttackAddedRatio"] = 2200
       /\ setOut[impl].props["SpeedAddedRatio"] = 600
       /\ setOut[impl].props["HealRatioBase"] = 1000
       /\ setOut[impl].props["CriticalChanceBase"] = 0

\* The value the ZZZ table gives to a prop id for n pieces of a set: the
\* set's SetBonusProps once from two pieces on, 0 for a set not in the table.
ZzzSetContribution(table, id, n, pid) ==
  IF n >= 2 /\ id \in DOMAIN table /\ pid \in DOMAIN table[id].SetBonusProps
    THEN table[id].SetBonusProps[pid] ELSE 0

ZzzSetTotal(table, ps, pid) ==
  SumOver(ZZZ_SET_IDS, [id \in ZZZ_SET_IDS |-> ZzzSetContribution(table, id, Count(ps, id), pid)])

ZzzSetExpectedLayer(table, ps) ==
  [k \in Range(ZZZ_KEY_ORDER) |->
     SumOver({pid \in PROP_IDS : PROP_ID_TO_NAME[pid] = k},
             [pid \in PROP_IDS |-> Fix(ZzzSetTotal(table, ps, pid))])]

\* The client's defaultdict holds the prop ids some applied bonus names.
ZzzSetExpectedStats(table, ps) ==
  [pid \in UNION {DOMAIN table[id].SetBonusProps :
                    id \in {x \in DOMAIN table : Count(ps, x) >= 2}} |->
     ZzzSetTotal(table, ps, pid)]

\* C9 as claimed: a set id (or a reached piece count) the table lacks is
\* skipped without raising and the other sets' bonuses are applied, in every
\* implementation of both games.
C9_MissingEntrySkipped ==
  \A impl \in DOMAIN setOut :
    setOut[impl].done =>
      /\ ~setOut[impl].raised
      /\ setOut[impl].props =
           (IF setGame = "hsr" THEN HsrSetExpected(setSkill, pieces)
            ELSE IF impl = "disc_sets" THEN ZzzSetExpectedLayer(suits, pieces)
            ELSE ZzzSetExpectedStats(suits, pieces))

(***************************************************************************)
(* Claims about the ZZZ agent (SpecAgent).                                 *)
(***************************************************************************)
\* The rows of the level table and of the star table for the agent's engine.
EngineLevelRows ==
  {i \in 1..Len(WEAPON_LEVEL) :
     /\ WEAPON_LEVEL[i].Level = zAgent.w_engine.level
     /\ WEAPON_LEVEL[i].Rarity = WEAPONS[zAgent.w_engine.id].Rarity}

EngineStarRows ==
  {j \in 1..Len(WEAPON_STAR) :
     /\ WEAPON_STAR[j].Rarity = WEAPONS[zAgent.w_engine.id].Rarity
     /\ WEAPON_STAR[j].BreakLevel = zAgent.w_engine.modification}

\* The raw stats the agent would have without its engine.
RawWithoutEngine == RawStats([zAgent EXCEPT !.w_engine = NoEngine]).val

EntryOrZero(list, i, pid) ==
  IF i \in 1..Len(list) /\ pid \in DOMAIN list[i] THEN list[i][pid] ELSE 0

\* Base growth with every missing term counted as 0.
ExpectedBase(pid) ==
  LET data == AVATARS[zAgent.id]
  IN data.BaseProps[pid]
       + (Get(data.GrowthProps, pid, 0) * (zAgent.level - 1)) \div TEN_THOUSAND
       + EntryOrZero(data.PromotionProps, zAgent.promotion, pid)
       + EntryOrZero(data.CoreEnhancementProps, zAgent.core_skill_level_num + 1, pid)

\* What the engine, the discs and the disc sets add to the raw stats.
EquipmentStats ==
  LET withEngine == IF zAgent.w_engine.present
                      THEN _add_engine_stats(<<>>, zAgent.w_engine)
                      ELSE <<>>
  IN _add_disc_set_bonus_stats(_add_disc_stats(withEngine, zAgent.discs), SUITS,
                               [i \in 1..Len(zAgent.discs) |-> zAgent.discs[i].set_id])

\* C10: base growth completes without error whatever entries the promotion
\* and core lists lack, a missing term counting 0: the client's raw stats
\* hold BaseProp + floor(growth) + promotion + core for every base prop id,
\* and so does the sum of the character layer and the core layer.
C10_MissingEntriesContributeZero ==
  /\ agentPc # "new" =>
       /\ agentPc = "done"
       /\ \A pid \in DOMAIN AVATARS[zAgent.id].BaseProps :
            agentLocals.raw[pid] - Get(EquipmentStats, pid, 0) = ExpectedBase(pid)
  /\ calcPc \notin {"character", "core"} =>
       /\ Len(propState) >= 2
       /\ \A pid \in DOMAIN AVATARS[zAgent.id].BaseProps :
            FreshSum("zzz", SubSeq(propState, 1, 2))[PROP_ID_TO_NAME[pid]]
              = Fix(ExpectedBase(pid))

\* C6: for agent 1121 the correction is floor(floor(DEF) x coefficient) of
\* the DEF aggregated over every other source, discs included: in the client
\* the amount added by the passive step is computed from the final DEF of
\* the raw stats of base, engine, discs and sets; LayerGenerator.corrections
\* returns a layer whose Atk_Delta is computed from the sum of the layers
\* generated before it, and that layer is not among them.
C6_CorrectionFromAggregate ==
  zAgent.id = BEN =>
    /\ agentPc = "done" =>
         LET raw == RawStats(zAgent).val
             def == FloorDiv(raw[13101] * (TEN_THOUSAND + Get(raw, 13102, 0)), TEN_THOUSAND)
                    + Get(raw, 13103, 0)
         IN \E p \in DOMAIN zAgent.stats :
              zAgent.stats[p] - agentLocals.final[p] =
                FloorDiv(def * BEN_SCALINGS[zAgent.core_skill_level_num + 1], 100)
    /\ calcLocals # <<>> =>
         /\ calcPc = "done"
         /\ propState[Len(propState)]["Atk_Delta"] =
              Fix(FloorDiv(Whole(defense(FreshSum("zzz", SubSeq(propState, 1, Len(propState) - 1))))
                             * BEN_SCALINGS[zAgent.core_skill_level_num + 1], 100))

\* C6: LayerGenerator.corrections has been called for agent 1121 wearing a
\* disc that adds to DEF.
C6_Witness ==
  /\ zAgent.id = BEN
  /\ calcLocals # <<>>
  /\ \E i \in 1..Len(zAgent.discs) : zAgent.discs[i].main_stat.type = 13103
  /\ calcLocals["Def_Delta"] > 0
  /\ agentPc = "done"
  /\ zAgent.stats[11101] > agentLocals.final[11101]

(***************************************************************************)
(* Claims about the rounding of Max HP and ATK (SpecRound).                *)
(***************************************************************************)
\* C4: with the same base, ratio and flat value, the ratio step of Max HP
\* rounds up and that of ATK rounds down, so that whenever base x ratio / 10000
\* is not whole the ATK is exactly one less than the Max HP, in the client's
\* final stats and in the properties of the summed layer; base 1000 with
\* ratio 2505 gives a ratio part of 251 for Max HP and 250 for ATK.
C4_CeilVsFloor ==
  LET fractional == (rBase * rRatio) % TEN_THOUSAND # 0
      example == rBase = 1000 /\ rRatio = 2505
  IN /\ rOut.client # <<>> =>
          /\ fractional => rOut.client[12101] = rOut.client[11101] - 1
          /\ example => /\ rOut.client[11101] = 1000 + 251 + rDelta
                        /\ rOut.client[12101] = 1000 + 250 + rDelta
     /\ rOut.calc # <<>> =>
          /\ fractional => rOut.calc.atk = rOut.calc.max_hp - Fix(1)
          /\ example => /\ rOut.calc.max_hp = Fix(1000 + 251 + rDelta)
                        /\ rOut.calc.atk = Fix(1000 + 250 + rDelta)

\* C4: base 1000 and ratio 2505 have been through both computations; the
\* client's Max HP is one more than its ATK.
C4_Witness ==
  /\ rBase = 1000
  /\ rRatio = 2505
  /\ rOut.client # <<>>
  /\ rOut.calc # <<>>
  /\ rOut.client[11101] = rOut.client[12101] + 1
  /\ rOut.calc.max_hp = Fix(1251 + rDelta)

(***************************************************************************)
(* Claims about the showcase (SpecBatch).                                  *)
(***************************************************************************)
\* C8: when _post_process_showcase has ended, every character of the
\* showcase that the character table holds has been post-processed, whatever
\* happened to the other characters of the batch.
C8_FailureDoesNotAbortBatch ==
  batchPc # "new" =>
    \A i \in 1..Len(batch) : batch[i] \in CharacterTable(batchClient) => i \in batchDone

(***************************************************************************)
(* Claims about the ZZZ set bonus (SpecSets).                              *)
(***************************************************************************)
\* C12: in ZZZ a set with fewer than two equipped discs contributes nothing
\* and a set with two or more discs (four and six included) contributes its
\* SetBonusProps exactly once, with no further bonus at a higher count; in
\* disc_sets and in the client's set block, whenever they return.
C12_SingleThreshold ==
  setGame = "zzz" =>
    \A impl \in DOMAIN setOut :
      (setOut[impl].done /\ ~setOut[impl].raised)
        => setOut[impl].props =
             (IF impl = "disc_sets" THEN ZzzSetExpectedLayer(suits, pieces)
              ELSE ZzzSetExpectedStats(suits, pieces))

\* C12 witness: five discs of set 31000 and one of set 32700, both sets in
\* the table: both implementations returned the bonus of 31000 once and
\* nothing for 32700.
C12_Witness ==
  /\ setGame = "zzz"
  /\ Count(pieces, 31000) = 5 /\ Count(pieces, 32700) = 1
  /\ DOMAIN suits = ZZZ_SET_IDS
  /\ \A impl \in DOMAIN setOut : setOut[impl].done /\ ~setOut[impl].raised
  /\ setOut["disc_sets"].props[PROP_ID_TO_NAME[20103]] = Fix(800)
  /\ setOut["disc_sets"].props[PROP_ID_TO_NAME[23103]] = 0
  /\ setOut["zzz_client"].props = [p \in {20103} |-> 800]

(***************************************************************************)
(* Claims about two characters evaluated at the same time (SpecPar).       *)
(***************************************************************************)
\* C13: characters of one batch share no mutable state.  In every
\* interleaving of the two characters' steps the module-level DEFAULT_PROPS
\* keeps its contents, every layer of a character holds what that
\* character's own adds alone make of it (no add of the other character
\* shows in it), and a character's completed sum is the sum obtained by
\* evaluating that character's layers alone.
C13_NoSharedState ==
  /\ parHeap[1] = DefaultProps(parGame)
  /\ \A c \in Characters :
       /\ parPc[c].cur # 0 => parHeap[parPc[c].cur] = parAlone[c].cur
       /\ Len(parLayers[c]) = Len(parAlone[c].layers)
       /\ \A j \in 1..Len(parLayers[c]) : parHeap[parLayers[c][j]] = parAlone[c].layers[j]
       /\ (parPc[c].sum # 0 /\ parPc[c].at > Len(parLayers[c]))
            => parHeap[parPc[c].sum] = FreshSum(parGame, parAlone[c].layers)

\* C13 witness: both characters took steps while the other's evaluation was
\* underway, each added to a layer of its own, and both sums are complete
\* and differ.
C13_Witness ==
  /\ \A c \in Characters :
       /\ parPc[c].overlap
       /\ parPc[c].sum # 0 /\ parPc[c].at > Len(parLayers[c])
       /\ Len(parLayers[c]) = 1
       /\ parHeap[parLayers[c][1]] # DefaultProps(parGame)
  /\ parHeap[parPc[1].sum] # parHeap[parPc[2].sum]

(***************************************************************************)
(* Claims about the floor in PropState.sum (SpecLayer).                    *)
(***************************************************************************)
\* The running sum of one key over the first j layers, as the specification
\* words it: running := floor(running + layer[key]) in ZZZ and
\* running := running + layer[key] in HSR, starting from 0.
RECURSIVE RunningSum(_, _, _, _)
RunningSum(g, contents, key, j) ==
  IF j = 0 THEN 0
  ELSE LET running == RunningSum(g, contents, key, j - 1)
       IN IF g = "zzz" THEN Floor(running + contents[j][key])
                       ELSE running + contents[j][key]

\* C17: for every list of layers and every key, the ZZZ PropState.sum()
\* equals the fold running := floor(running + layer[key]) from 0, a floor at
\* every addition step, and the HSR PropState.sum() equals the fold with no
\* floor at any step.
C17_FloorAtEveryStep ==
  sumOut # 0 =>
    \A key \in DOMAIN heap[sumOut] :
      heap[sumOut][key] = RunningSum(game, sumIn, key, Len(sumIn))

\* C17 witness: ZZZ layers holding 1.5 and 1.5 for HpMax_Base have been
\* summed to 2, where one floor at the end would give 3.
C17_Witness ==
  /\ game = "zzz"
  /\ sumOut # 0
  /\ Len(sumIn) = 2
  /\ sumIn[1]["HpMax_Base"] = 15000 /\ sumIn[2]["HpMax_Base"] = 15000
  /\ heap[sumOut]["HpMax_Base"] = Fix(2)

(***************************************************************************)
(* Claims about the order of the layers (SpecOrder).                       *)
(***************************************************************************)
\* The sum of the layers' values in exact arithmetic, and of their sizes.
RECURSIVE ExactSum(_, _)
ExactSum(values, j) == IF j = 0 THEN 0 ELSE ExactSum(values, j - 1) + values[j]

RECURSIVE SizeSum(_, _)
SizeSum(values, j) == IF j = 0 THEN 0 ELSE SizeSum(values, j - 1) + Abs(values[j])

C14_AssetsNeverMutated == consts_data = gLoaded

(***************************************************************************)
(* C15: with a cache configured, a _request(url) issued less than 60       *)
(* seconds after a _request(url) that ended successfully returns the same  *)
(* data from the cache, without a network request.                         *)
(***************************************************************************)
\* The last call was issued while an earlier answer for its url was younger
\* than the time to live.
WithinTTL ==
  /\ call # <<>>
  /\ cacheKind # "none"
  /\ call.prior # <<>>
  /\ call.at < call.prior.at + TTL

C15_CacheHitWithinTTL ==
  WithinTTL => /\ ~call.network
               /\ call.raised = ""
               /\ call.data = call.prior.data

\* A call served within the time to live, at a later time than the answer it
\* repeats, while the server would by then have been asked a third time.
C15_Witness ==
  /\ WithinTTL
  /\ call.at > call.prior.at
  /\ ~call.network
  /\ call.data = call.prior.data
  /\ nCalls = MaxCalls

(***************************************************************************)
(* C16: a response whose status is not 200 makes _request raise the        *)
(* exception mapped to the status (400 WrongUIDFormatError, 404            *)
(* PlayerDoesNotExistError, 424 GameMaintenanceError, 429                  *)
(* RateLimitedError, 500 GeneralServerError, 503                           *)
(* AlgoScrewedUpMassivelyError, 504 GatewayTimeoutError, every other       *)
(* status the base EnkaAPIError) and never return data.                    *)
(***************************************************************************)
\* The mapping as the claim states it.
StatusError ==
  [s \in Statuses |->
     CASE s = 400 -> "WrongUIDFormatError"
       [] s = 404 -> "PlayerDoesNotExistError"
       [] s = 424 -> "GameMaintenanceError"
       [] s = 429 -> "RateLimitedError"
       [] s = 500 -> "GeneralServerError"
       [] s = 503 -> "AlgoScrewedUpMassivelyError"
       [] s = 504 -> "GatewayTimeoutError"
       [] OTHER -> "EnkaAPIError"]

\* The last call got an answer from the network whose status was not 200.
AnsweredNot200 == call # <<>> /\ call.network /\ call.status \in Statuses \ {200}

C16_StatusRaisesMappedError ==
  AnsweredNot200 => /\ call.raised = StatusError[call.status]
                    /\ call.data = <<>>
                    /\ call.url \in DOMAIN cacheStore =>
                         /\ call.prior # <<>>
                         /\ Loads(cacheStore[call.url].value) = call.prior.data

\* A 404 answer raised PlayerDoesNotExistError (tests/test_zzz.py), with a
\* cache configured.
C16_Witness ==
  /\ AnsweredNot200
  /\ call.status = 404
  /\ call.raised = "PlayerDoesNotExistError"
  /\ cacheKind # "none"

(***************************************************************************)
(* What the sources of an HSR character contribute to each stat key, as    *)
(* sections 4.3 to 4.7 of the specification state it: the character's base *)
(* growth, the light cone's base growth at the light cone's own level, the *)
(* light cone's skill, every stat of every relic, the set bonuses at two   *)
(* and at four pieces, and the traces the tree table holds.                *)
(***************************************************************************)
Growth(base, perLevel, level) == base + perLevel * (level - 1)

FromCharacter(c, key) ==
  LET row == HSR_AVATAR[c.id][c.ascension]
  IN CASE key = "BaseHP" -> Growth(row.HPBase, row.HPAdd, c.level)
       [] key = "BaseAttack" -> Growth(row.AttackBase, row.AttackAdd, c.level)
       [] key = "BaseDefence" -> Growth(row.DefenceBase, row.DefenceAdd, c.level)
       [] key = "BaseSpeed" -> row.SpeedBase
       [] key = "CriticalChance" -> row.CriticalChance
       [] key = "CriticalDamage" -> row.CriticalDamage
       [] OTHER -> 0

FromLightCone(c, key) ==
  IF ~c.light_cone.present THEN 0
  ELSE LET lc == c.light_cone
           row == HSR_EQUIPMENT[lc.id][lc.ascension]
       IN CASE key = "BaseHP" -> Growth(row.BaseHP, row.HPAdd, lc.level)
            [] key = "BaseAttack" -> Growth(row.BaseAttack, row.AttackAdd, lc.level)
            [] key = "BaseDefence" -> Growth(row.BaseDefence, row.DefenceAdd, lc.level)
            [] OTHER -> 0

FromLightConeSkill(c, key) ==
  IF c.light_cone.present /\ c.light_cone.id \in DOMAIN HSR_EQUIPMENT_SKILL
    THEN Get(HSR_EQUIPMENT_SKILL[c.light_cone.id][c.light_cone.superimpose].props, key, 0)
    ELSE 0

RECURSIVE FromRelics(_, _, _)
FromRelics(c, key, n) ==
  IF n = 0 THEN 0
  ELSE LET stats == c.relics[n].stats
           here == {i \in 1..Len(stats) : stats[i].type = key}
       IN FromRelics(c, key, n - 1)
            + (IF here = {} THEN 0 ELSE stats[CHOOSE i \in here : TRUE].value)

PiecesOf(c, id) == Cardinality({i \in 1..Len(c.relics) : c.relics[i].set_id = id})

FromSet(c, key, id) ==
  (IF PiecesOf(c, id) >= 2 THEN Get(HsrSetProps(id, 2), key, 0) ELSE 0)
    + (IF PiecesOf(c, id) >= 4 THEN Get(HsrSetProps(id, 4), key, 0) ELSE 0)

FromSets(c, key) == FromSet(c, key, 101) + FromSet(c, key, 102)

RECURSIVE FromTraces(_, _, _)
FromTraces(c, key, n) ==
  IF n = 0 THEN 0
  ELSE FromTraces(c, key, n - 1)
         + (IF c.traces[n].id \in DOMAIN HSR_TREE
              THEN Get(HSR_TREE[c.traces[n].id][c.traces[n].level].props, key, 0)
              ELSE 0)

\* The sum of the contributions to a key.
Contributed(c, key) ==
  FromCharacter(c, key) + FromLightCone(c, key) + FromLightConeSkill(c, key)
    + FromRelics(c, key, Len(c.relics)) + FromSets(c, key) + FromTraces(c, key, Len(c.traces))

\* base x (1 + ratio) + delta + convert over the contributions, in
\* ten-thousandths.
Compound(c, base, ratio, delta, convert) ==
  Contributed(c, base) * (TEN_THOUSAND + Contributed(c, ratio))
    + Contributed(c, delta) * TEN_THOUSAND + Contributed(c, convert) * TEN_THOUSAND

CompoundHP(c) == Compound(c, "BaseHP", "HPAddedRatio", "HPDelta", "HPConvert")

CompoundAttack(c) ==
  Compound(c, "BaseAttack", "AttackAddedRatio", "AttackDelta", "AttackConvert")

CompoundDefence(c) ==
  Compound(c, "BaseDefence", "DefenceAddedRatio", "DefenceDelta", "DefenceConvert")

CompoundSpeed(c) == Compound(c, "BaseSpeed", "SpeedAddedRatio", "SpeedDelta", "SpeedConvert")

\* 1.0 plus the contributions to the three energy-regen keys.
EnergyRegen(c) ==
  TEN_THOUSAND + Contributed(c, "SPRatioBase") + Contributed(c, "SPRatio")
    + Contributed(c, "SPRatioConvert")

(***************************************************************************)
(* C19: each of HP, ATK, DEF and Speed of an HSR character equals (sum of  *)
(* base contributions) x (1 + sum of ratio contributions) + sum of delta   *)
(* contributions + sum of convert contributions, in the summed PropLayer's *)
(* properties and in the client's final_stats.                             *)
(***************************************************************************)
C19_CalcCompound ==
  hSum # <<>> =>
    /\ PropLayerDerived(hSum).hp = CompoundHP(hChar)
    /\ PropLayerDerived(hSum).attack = CompoundAttack(hChar)
    /\ PropLayerDerived(hSum).defence = CompoundDefence(hChar)
    /\ PropLayerDerived(hSum).speed = CompoundSpeed(hChar)

C19_ClientCompound ==
  hStats # <<>> =>
    /\ hStats.final_stats["MAX_HP"] = CompoundHP(hChar)
    /\ hStats.final_stats["ATK"] = CompoundAttack(hChar)
    /\ hStats.final_stats["DEF"] = CompoundDefence(hChar)
    /\ hStats.final_stats["SPD"] = CompoundSpeed(hChar)

C19_CompoundStats == C19_CalcCompound /\ C19_ClientCompound

(***************************************************************************)
(* C20: the energy-regen rate of an HSR character is 1.0 plus the          *)
(* contributions to SPRatioBase, SPRatio and SPRatioConvert, the 1.0       *)
(* counted once, in the summed PropLayer's sp_ratio and in the client's    *)
(* ENERGY_REGEN_RATE; with no contribution it is exactly 1.0.              *)
(***************************************************************************)
C20_EnergyRegenBaselineOnce ==
  /\ hSum # <<>> => PropLayerDerived(hSum).sp_ratio = EnergyRegen(hChar)
  /\ hStats # <<>> => hStats.final_stats["ENERGY_REGEN_RATE"] = EnergyRegen(hChar)
  /\ (hStats # <<>> /\ hSum # <<>> /\ EnergyRegen(hChar) = TEN_THOUSAND) =>
       /\ hStats.final_stats["ENERGY_REGEN_RATE"] = TEN_THOUSAND
       /\ PropLayerDerived(hSum).sp_ratio = TEN_THOUSAND

\* Both paths have run for a character whose light cone's skill and relics
\* contribute to the energy-regen rate.
C20_Witness ==
  /\ hStats # <<>>
  /\ hSum # <<>>
  /\ hChar.light_cone.present
  /\ Contributed(hChar, "SPRatioBase") > 1944
  /\ hStats.final_stats["ENERGY_REGEN_RATE"] = TEN_THOUSAND + Contributed(hChar, "SPRatioBase")

(***************************************************************************)
(* The ZZZ agent machine and the HSR character machine side by side: a     *)
(* behaviour processes one ZZZ agent or one HSR character.                 *)
(***************************************************************************)
InitEquip == InitAgent \/ InitHsr

EquipNext == AgentNext \/ HsrNext

SpecEquip ==
  InitEquip /\ [][EquipNext]_vars

(***************************************************************************)
(* C11: a character without a weapon (ZZZ w_engine None, HSR light_cone    *)
(* None) is processed without an error that the missing weapon causes, and *)
(* its aggregated stats are the sum of the remaining sources: there is no  *)
(* weapon layer and no weapon-skill layer, and no weapon contribution in   *)
(* the client's table.                                                     *)
(***************************************************************************)
\* The HSR character has no light cone.
NoLightConeCase == hChar # <<>> /\ ~hChar.light_cone.present

\* The ZZZ agent has no engine.
NoEngineCase == zAgent # <<>> /\ ~zAgent.w_engine.present

\* HSR: the client's table holds the character's own rows and nothing of a
\* light cone, the four layers are those of the character, the traces, the
\* relics and the sets, and both paths give the stats of these sources.
C11_HSR ==
  NoLightConeCase =>
    /\ hStats # <<>> =>
         /\ hStats.chara_stats["BaseHP"] = 0
         /\ hStats.chara_stats["BaseAttack"] = 0
         /\ hStats.chara_stats["BaseDefence"] = 0
         /\ hStats.chara_stats["HPAdd"] = HSR_AVATAR[hChar.id][hChar.ascension].HPAdd
         /\ hStats.final_stats["MAX_HP"] = CompoundHP(hChar)
         /\ hStats.final_stats["ATK"] = CompoundAttack(hChar)
         /\ hStats.final_stats["DEF"] = CompoundDefence(hChar)
         /\ hStats.final_stats["SPD"] = CompoundSpeed(hChar)
         /\ hStats.final_stats["ENERGY_REGEN_RATE"] = EnergyRegen(hChar)
    /\ hSum # <<>> =>
         /\ Len(hLayers) = 4
         /\ hSum["BaseHP"] = FromCharacter(hChar, "BaseHP")
         /\ hSum["BaseAttack"] = FromCharacter(hChar, "BaseAttack")
         /\ hSum["BaseDefence"] = FromCharacter(hChar, "BaseDefence")
         /\ PropLayerDerived(hSum).hp = CompoundHP(hChar)
         /\ PropLayerDerived(hSum).sp_ratio = EnergyRegen(hChar)

\* ZZZ: the PropState holds the character, core and disc layers and then
\* the set layer, no weapon layer between them.
C11_ZZZLayers ==
  NoEngineCase =>
    /\ calcPc = "disc_sets" =>
         Len(propState) = 3 /\ propState[3] = discs(zAgent.discs).props
    /\ calcPc = "corrections" => Len(propState) = 4

\* ZZZ: the client's step on an agent without an engine.  If the same agent
\* with an engine whose rows exist is processed without error, so is the
\* agent without one; and its raw stats are the base stats, the discs'
\* stats and the set bonuses only.
C11_ZZZStep ==
  (NoEngineCase /\ agentPc = "new" /\ agentPc' # "new") =>
    LET equipped == _post_process_agent([zAgent EXCEPT !.w_engine = Engine(12001, 10, 0)])
        base == _get_agent_base_stats(zAgent)
    IN /\ ~equipped.raised => agentPc' = "done"
       /\ agentPc' = "done" =>
            /\ ~zAgent'.w_engine.present
            /\ agentLocals'.raw =
                 _add_disc_set_bonus_stats(
                   _add_disc_stats(base.val, zAgent'.discs), SUITS,
                   [i \in 1..Len(zAgent'.discs) |-> zAgent'.discs[i].set_id])

C11_NoWeapon == [](C11_HSR /\ C11_ZZZLayers) /\ [][C11_ZZZStep]_vars

\* An agent without an engine that wears discs has been processed by the
\* client and its layers have been generated up to the set layer.
C11_Witness ==
  /\ NoEngineCase
  /\ agentPc = "done"
  /\ Len(zAgent.discs) > 0
  /\ calcPc = "corrections"

\* A character without a light cone that wears relics has gone through
\* both paths.
C11_WitnessHSR ==
  /\ NoLightConeCase
  /\ hStats # <<>>
  /\ hSum # <<>>
  /\ Len(hChar.relics) > 0

(***************************************************************************)
(* C30: _request never returns a cached entry at or after its expiry time  *)
(* (the time of set + ttl), with MemoryCache and with SQLiteCache.         *)
(***************************************************************************)
\* The last call was answered from the cache.
ServedFromCache == call # <<>> /\ cacheKind # "none" /\ ~call.network

C30_NeverServedExpired ==
  ServedFromCache => /\ call.prior # <<>>
                     /\ call.at < call.prior.at + TTL

(***************************************************************************)
(* C23: round_down(number, decimal_places) rounds toward zero at the given *)
(* number of decimal places for every input, negative numbers included,    *)
(* and is idempotent.                                                      *)
(***************************************************************************)
\* The float that stands for the number cut off toward zero after the
\* given number of decimal places.
TowardZero(number, decimal_places) ==
  LET factor == 10 ^ decimal_places
      scaled == number * factor
      whole == IF scaled < 0 THEN -((-scaled) \div DisplayUnit) ELSE scaled \div DisplayUnit
  IN RoundRatio(whole * DisplayUnit, factor)

C23_TowardZero == dOut # <<>> => dOut[1] = TowardZero(dNumber, dPlaces)

C23_Idempotent == dAgain # <<>> => dAgain = dOut

C23_RoundDownTowardZero == C23_TowardZero /\ C23_Idempotent

(***************************************************************************)
(* C21: when the client post-processes a ZZZ agent, every equipped disc    *)
(* contributes its main stat once and each of its sub stats once, with the *)
(* value raw x roll_times, to the aggregated table, also when the disc's   *)
(* level row is missing.                                                   *)
(***************************************************************************)
\* What the discs are to contribute: each disc's main stat as the disc
\* shows it after the call, each sub stat with the parsed value times its
\* roll count.
RECURSIVE ExpectedDiscSeq(_, _, _)
ExpectedDiscSeq(parsed, shown, i) ==
  IF i > Len(parsed) THEN <<>>
  ELSE <<[type |-> shown[i].main_stat.type, value |-> shown[i].main_stat.value]>>
         \o [j \in 1..Len(parsed[i].sub_stats) |->
               [type |-> parsed[i].sub_stats[j].type,
                value |-> parsed[i].sub_stats[j].value * parsed[i].sub_stats[j].roll_times]]
         \o ExpectedDiscSeq(parsed, shown, i + 1)

\* The client's step has ended without error.
Processed == zAgent # <<>> /\ agentPc = "new" /\ agentPc' = "done"

C21_Step ==
  Processed =>
    LET base == _get_agent_base_stats(zAgent).val
        withEngine == IF zAgent'.w_engine.present
                        THEN _add_engine_stats(base, zAgent'.w_engine)
                        ELSE base
        withDiscs == AddStatSeq(withEngine, ExpectedDiscSeq(zAgent.discs, zAgent'.discs, 1))
    IN agentLocals'.raw =
         _add_disc_set_bonus_stats(withDiscs, SUITS,
                                   [i \in 1..Len(zAgent'.discs) |-> zAgent'.discs[i].set_id])

C21_DiscsContributeOnce == [][C21_Step]_vars

(***************************************************************************)
(* C29: the W-Engine upgrade is all or nothing: with both the level row    *)
(* and the star row the main and the sub stat both hold their upgraded     *)
(* values; with either row missing both keep the values of the weapons     *)
(* table.  Never one upgraded and the other not.                           *)
(***************************************************************************)
EngineDone == zAgent # <<>> /\ agentPc = "done" /\ zAgent.w_engine.present

HasLevelRow(e) ==
  \E k \in 1..Len(WEAPON_LEVEL) :
     WEAPON_LEVEL[k].Level = e.level /\ WEAPON_LEVEL[k].Rarity = WEAPONS[e.id].Rarity

HasStarRow(e) ==
  \E k \in 1..Len(WEAPON_STAR) :
     WEAPON_STAR[k].BreakLevel = e.modification /\ WEAPON_STAR[k].Rarity = WEAPONS[e.id].Rarity

MainUnchanged(e) == e.main_stat.value = WEAPONS[e.id].MainStat.PropertyValue
SubUnchanged(e) == e.sub_stat.value = WEAPONS[e.id].SecondaryStat.PropertyValue

MainUpgraded(e) ==
  \E k \in 1..Len(WEAPON_LEVEL), s \in 1..Len(WEAPON_STAR) :
     /\ WEAPON_LEVEL[k].Level = e.level /\ WEAPON_LEVEL[k].Rarity = WEAPONS[e.id].Rarity
     /\ WEAPON_STAR[s].BreakLevel = e.modification /\ WEAPON_STAR[s].Rarity = WEAPONS[e.id].Rarity
     /\ e.main_stat.value =
          FloorDiv(WEAPONS[e.id].MainStat.PropertyValue *
                     (TEN_THOUSAND + WEAPON_LEVEL[k].EnhanceRate + WEAPON_STAR[s].StarRate),
                   TEN_THOUSAND)

SubUpgraded(e) ==
  \E s \in 1..Len(WEAPON_STAR) :
     /\ WEAPON_STAR[s].BreakLevel = e.modification /\ WEAPON_STAR[s].Rarity = WEAPONS[e.id].Rarity
     /\ e.sub_stat.value =
          FloorDiv(WEAPONS[e.id].SecondaryStat.PropertyValue *
                     (TEN_THOUSAND + WEAPON_STAR[s].RandRate),
                   TEN_THOUSAND)

C29_EngineAllOrNothing ==
  EngineDone =>
    LET e == zAgent.w_engine
    IN IF HasLevelRow(e) /\ HasStarRow(e)
         THEN MainUpgraded(e) /\ SubUpgraded(e)
         ELSE MainUnchanged(e) /\ SubUnchanged(e)

\* An engine whose level row exists and whose star row is missing, and whose
\* upgraded main stat would differ from the raw one.
C29_Witness ==
  /\ EngineDone
  /\ HasLevelRow(zAgent.w_engine) /\ ~HasStarRow(zAgent.w_engine)
  /\ MainUnchanged(zAgent.w_engine) /\ SubUnchanged(zAgent.w_engine)

\* Both rows present and both values moved.
BothUpgraded ==
  /\ EngineDone
  /\ HasLevelRow(zAgent.w_engine) /\ HasStarRow(zAgent.w_engine)
  /\ ~MainUnchanged(zAgent.w_engine) /\ ~SubUnchanged(zAgent.w_engine)

(***************************************************************************)
(* C25: a disc or an engine whose level or star row is missing does not    *)
(* stop the processing, and it adds nothing to the agent's aggregated      *)
(* stats.                                                                  *)
(***************************************************************************)
HasDiscRow(d) ==
  \E k \in 1..Len(EQUIPMENT_LEVEL) :
     EQUIPMENT_LEVEL[k].Level = d.level /\ EQUIPMENT_LEVEL[k].Rarity = ITEMS[d.id].Rarity

HasEngineRows(e) == HasLevelRow(e) /\ HasStarRow(e)

\* The discs whose row exists, in their order.
DiscsWithRow(ds) == SelectSeq(ds, HasDiscRow)

\* The aggregated table with the items without a row left out.
RawOmitting(agent) ==
  LET base == _get_agent_base_stats(agent).val
      withEngine == IF agent.w_engine.present /\ HasEngineRows(agent.w_engine)
                      THEN _add_engine_stats(base, agent.w_engine)
                      ELSE base
      withDiscs == AddStatSeq(withEngine, DiscStatSeq(DiscsWithRow(agent.discs)))
  IN _add_disc_set_bonus_stats(withDiscs, SUITS,
                               [i \in 1..Len(agent.discs) |-> agent.discs[i].set_id])

AgentDone == zAgent # <<>> /\ agentPc = "done"

C25_MissingRowOmitted == AgentDone => agentLocals.raw = RawOmitting(zAgent)

\* Whatever rows are missing, a raise has another cause: the same agent with
\* every row in place raises as well.
WithRows(agent) ==
  [agent EXCEPT
     !.discs = [i \in 1..Len(agent.discs) |-> [agent.discs[i] EXCEPT !.level = 15]],
     !.w_engine = IF agent.w_engine.present /\ agent.w_engine.id = 14001
                    THEN [agent.w_engine EXCEPT !.level = 60, !.modification = 5]
                    ELSE agent.w_engine]

MissingRowNeverRaises ==
  [][(zAgent # <<>> /\ agentPc = "new" /\ agentPc' = "raised")
       => _post_process_agent(WithRows(zAgent)).raised]_vars

\* The items of a processed agent all have their rows, or one lacks them.
SomeRowMissing ==
  /\ AgentDone
  /\ \/ \E i \in 1..Len(zAgent.discs) : ~HasDiscRow(zAgent.discs[i])
     \/ zAgent.w_engine.present /\ ~HasEngineRows(zAgent.w_engine)

OmittedWhenRowsThere == (AgentDone /\ ~SomeRowMissing) => agentLocals.raw = RawOmitting(zAgent)

(***************************************************************************)
(* C24: Ben's passive adds floor(DEF x scaling[core_skill_level_num]) to   *)
(* his ATK and leaves every other final stat, Max HP among them, as it     *)
(* was; for any other agent the rule changes nothing.                      *)
(***************************************************************************)
ATK == 12101
DEF_STAT == 13101

\* The final stats before the passives, with Ben's bonus on ATK.
WithBenBonus(final, agent) ==
  [final EXCEPT ![ATK] = @ + FloorDiv(final[DEF_STAT] * BEN_SCALINGS[agent.core_skill_level_num + 1],
                                      100)]

C24_BenDefToAtk ==
  AgentDone =>
    zAgent.stats = IF zAgent.id = BEN THEN WithBenBonus(agentLocals.final, zAgent)
                                      ELSE agentLocals.final

\* For the agents other than Ben the passives change nothing.
OthersUnchanged == (AgentDone /\ zAgent.id # BEN) => zAgent.stats = agentLocals.final

BenDone == AgentDone /\ zAgent.id = BEN

(***************************************************************************)
(* C26: for every base prop and all integer table values the character's   *)
(* contribution is BaseProp + floor(GrowthProp x (level - 1) / 10000) +    *)
(* PromotionProps[promotion - 1] + CoreEnhancementProps[core tier], the    *)
(* floor on the growth term only, and the layers summed with floors give   *)
(* the same value as the client's direct computation.                      *)
(***************************************************************************)
\* The formula over the integers.
BaseGrowth(p) ==
  p.base + FloorDiv(p.growth * (p.level - 1), TEN_THOUSAND) + p.promotion + p.core

C26_Layered == bLayered # <<>> => bLayered[1] = BaseGrowth(bProp)

C26_Direct == bDirect # <<>> => bDirect[1] = BaseGrowth(bProp)

C26_Same == (bLayered # <<>> /\ bDirect # <<>>) => bLayered[1] = bDirect[1]

C26_BaseGrowth == C26_Layered /\ C26_Direct /\ C26_Same

\* The same comparison over exact numbers, for the agents of the agent
\* machine whose layers were generated and whose client step returned.
C26_ExactLayers ==
  (AgentDone /\ Len(propState) >= 2) =>
    LET s == FreshSum("zzz", <<propState[1], propState[2]>>)
        direct == _get_agent_base_stats(zAgent).val
    IN \A pid \in DOMAIN direct : s[PROP_ID_TO_NAME[pid]] = Fix(direct[pid])

(***************************************************************************)
(* C28: the ZZZ stat keys are closed and consistent: every StatType has an *)
(* entry in PROP_ID_TO_NAME, every name of PROP_ID_TO_NAME is a key of     *)
(* DEFAULT_PROPS, and LayerGenerator.weapon and discs never fail for a     *)
(* stat whose type is a StatType.                                          *)
(***************************************************************************)
EveryStatTypeNamed == STAT_TYPES \subseteq PROP_IDS

EveryNameAKey == \A id \in PROP_IDS : PROP_ID_TO_NAME[id] \in DOMAIN DEFAULT_PROPS_ZZZ

WeaponNeverFails == kWeapon # <<>> => ~kWeapon[1].raised

DiscsNeverFail == kDiscs # <<>> => ~kDiscs[1].raised

\* Read once both generators have been called for the stat; the stats of
\* the initial states range over the whole enum.
C28_SchemaClosed ==
  (kWeapon # <<>> /\ kDiscs # <<>>) =>
    /\ kStat.type \in PROP_IDS
    /\ EveryNameAKey
    /\ WeaponNeverFails /\ DiscsNeverFail

\* The types the names are missing for.
Unnamed == STAT_TYPES \ PROP_IDS

NamedNeverFail ==
  kStat # <<>> /\ kStat.type \notin Unnamed => WeaponNeverFails /\ DiscsNeverFail

(***************************************************************************)
(* C27: a rejected PropLayer.add changes nothing: whatever adds were made, *)
(* every layer has exactly the keys of the game's DEFAULT_PROPS, and an    *)
(* add that raises leaves every value of every layer as it was.            *)
(***************************************************************************)
C27_KeySet == \A id \in DOMAIN heap : DOMAIN heap[id] = Range(KeyOrder(game))

\* A call of PropLayer.add that raised.
RejectedAdd == nAdds' = nAdds + 1 /\ raised'

C27_RejectedStep == RejectedAdd => heap' = heap

C27_RejectedAddChangesNothing == []C27_KeySet /\ [][C27_RejectedStep]_vars

\* A ZZZ layer that holds a value has rejected a name of the other game.
C27_Witness ==
  /\ game = "zzz"
  /\ raised
  /\ lastAdd = "BaseHP"
  /\ cur # 0
  /\ heap[cur] # ZeroTable(game)

(***************************************************************************)
(* C22: the level at which a trace's row of the skill tree is read is its  *)
(* parsed level plus, for each unlocked eidolon (the first                 *)
(* eidolons_unlocked of the character's list), that eidolon's levels for   *)
(* the first of the trace's skill ids it lists, one boost at most per      *)
(* eidolon and trace; the boost is there before the stats are added up,    *)
(* and a locked eidolon never boosts.                                      *)
(***************************************************************************)
\* The place of the first skill id of the trace that the eidolon lists (0: none).
FirstListed(trace_id, eidolon_id) ==
  LET ids == SKILL_TREE_DATA[trace_id].skillIds
      hits == {j \in 1..Len(ids) : ids[j] \in DOMAIN EIDOLON_DATA[eidolon_id].SkillAddLevelList}
  IN IF hits = {} THEN 0 ELSE CHOOSE j \in hits : \A x \in hits : j <= x

\* The levels one eidolon adds to the trace.
BoostOf(trace_id, eidolon_id) ==
  LET j == FirstListed(trace_id, eidolon_id)
  IN IF j = 0 THEN 0
     ELSE EIDOLON_DATA[eidolon_id].SkillAddLevelList[SKILL_TREE_DATA[trace_id].skillIds[j]]

\* The levels the first n eidolons of the list add.
RECURSIVE BoostOfFirst(_, _)
BoostOfFirst(trace_id, n) ==
  IF n = 0 THEN 0 ELSE BoostOfFirst(trace_id, n - 1) + BoostOf(trace_id, RANK_ID_LIST[n])

EffectiveLevel(c, i) == c.traces[i].level + BoostOfFirst(c.traces[i].id, c.eidolons_unlocked)

\* What the rows at the effective levels add to a key.
RECURSIVE FromRows(_, _, _)
FromRows(c, key, n) ==
  IF n = 0 THEN 0
  ELSE FromRows(c, key, n - 1)
         + (IF c.traces[n].id \in DOMAIN HSR_TREE
              THEN Get(HSR_TREE[c.traces[n].id][EffectiveLevel(c, n)].props, key, 0)
              ELSE 0)

TracesProcessed == tStats = <<>> /\ tStats' # <<>>

C22_Step ==
  TracesProcessed =>
    /\ \A i \in 1..Len(tChar.traces) :
         /\ tChar'.traces[i].level = EffectiveLevel(tChar, i)
         /\ tChar'.traces[i].boosted = (EffectiveLevel(tChar, i) # tChar.traces[i].level)
    /\ \A key \in DOMAIN DEFAULT_STATS :
         tStats'[1][key] = FromRows(tChar, key, Len(tChar.traces))

C22_BoostBeforeAggregation == [][C22_Step]_vars

\* Two eidolons are unlocked and the third is not; a trace of the tree whose
\* two skill ids are both listed by the second eidolon has been raised by
\* that eidolon's levels for the first of them only, and its row read there.
C22_Witness ==
  /\ tStats # <<>>
  /\ tChar.eidolons_unlocked = 2
  /\ Len(tChar.traces) >= 1
  /\ tChar.traces[1].id = 1001002
  /\ tChar.traces[1].level = 2
  /\ tChar.traces[1].boosted
  /\ tStats[1]["AttackAddedRatio"] >= 200

====
